---- MODULE Spec2Model ----
(***************************************************************************)
(* Verification model of the Dreamcast asset decoders of                   *)
(* ikaruga-asset-viewer: the PVR texture decoder (src/lib/parsePvr.ts and  *)
(* the two other revisions of it the repository holds), the PVM archive    *)
(* decoders (parsePVMFile, parsePvm) and the Ninja model decoder           *)
(* (src/lib/njParse.ts).                                                   *)
(*                                                                         *)
(* A texture or archive decode call is one atomic action: the buffer, the optional external   *)
(* palette and the revision are the inputs drawn in Init, and the action   *)
(* leaves the returned header and pixel bytes (or the error thrown) in the *)
(* state, together with what the decoder did on the way (which pixel-layout*)
(* decoder ran, the codebook size read, the palette indices extracted, the *)
(* place every stored value went to, how often every byte was written).   *)
(* A model decode is a sequence of steps, one for every section, every    *)
(* call of readBone and readChunk and every chunk of a chunk stream.       *)
(***************************************************************************)
EXTENDS Integers, Sequences, FiniteSets, TLC

(***************************************************************************)
(* Bounds of the model.                                                    *)
(***************************************************************************)
\* Texture widths and heights 1..MaxDim are decoded in every pixel layout.
MaxDim == 4

\* Archives hold 0..MaxTextures textures.
MaxTextures == 2
\* The bone records of a skeleton, the references of a strip, and the depth
\* of the nested calls the call stack has room for
MaxBones == 3
MaxStrip == 5
MaxCallDepth == 6
\* The decodeTwiddled calls of the component that run interleaved, and the
\* renders of PVRImage with new paths
MaxDecodes == 2
MaxRenders == 3

(***************************************************************************)
(* Program constants.                                                      *)
(***************************************************************************)
\* enum PVR_FORMATS
ARGB1555 == 0
RGB565 == 1
ARGB4444 == 2
YUV422 == 3
BUMP == 4
RGB555 == 5
ARGB8888 == 6

\* enum PVR_DATA_FORMATS
TWIDDLED == 1
TWIDDLED_MM == 2
VQ == 3
VQ_MM == 4
PALETTIZE4 == 5
PALETTIZE4_MM == 6
PALETTIZE8 == 7
PALETTIZE8_MM == 8
RECTANGLE == 9
STRIDE == 11
TWIDDLED_RECTANGLE == 13
SMALL_VQ == 16
SMALL_VQ_MM == 17
TWIDDLED_MM_ALT == 18

\* The messages of the errors the decoders throw, and the two built-in
\* error classes a DataView read past the end, an invalid array length and
\* a destructuring of undefined raise.
ErrInvalidMagic == "Invalid PVR file format (missing PVRT header)"
ErrUnsupported == "Data format not supported"
ErrPowerOfTwo == "Width and height must be powers of 2"
ErrGeneratedIndex == "Generated index is out of bounds for texture"
ErrRange == "RangeError"
ErrType == "TypeError"
NoError == "none"

\* A JavaScript undefined (an array hole, a read past the end of an array).
Undefined == -1

(***************************************************************************)
(* Integer arithmetic of the code: shifts, masks, typed-array stores.      *)
(***************************************************************************)
RECURSIVE Pow2(_)
Pow2(n) == IF n = 0 THEN 1 ELSE 2 * Pow2(n - 1)

\* a >> n and a << n on the non-negative values the decoders hold
Shr(a, n) == a \div Pow2(n)
Shl(a, n) == a * Pow2(n)

RECURSIVE BitAnd(_, _)
BitAnd(a, b) ==
  IF a = 0 \/ b = 0 THEN 0
  ELSE (a % 2) * (b % 2) + 2 * BitAnd(a \div 2, b \div 2)

RECURSIVE BitOr(_, _)
BitOr(a, b) ==
  IF a = 0 THEN b
  ELSE IF b = 0 THEN a
  ELSE (IF a % 2 = 1 \/ b % 2 = 1 THEN 1 ELSE 0) + 2 * BitOr(a \div 2, b \div 2)

\* ToInt32 of a value used in a bit operation: undefined becomes 0
ToInt(v) == IF v = Undefined THEN 0 ELSE v

\* Math.round(num / den): to the nearest integer, halves up
MathRound(num, den) == (2 * num + den) \div (2 * den)

\* The store of num / den into a Uint8ClampedArray element: to the nearest
\* integer, halves to even, clamped to 0..255.
ToUint8Clamp(num, den) ==
  LET q == num \div den
      r == num % den
      n == IF 2 * r < den THEN q
           ELSE IF 2 * r > den THEN q + 1
           ELSE IF q % 2 = 0 THEN q ELSE q + 1
  IN IF n > 255 THEN 255 ELSE n

Min(a, b) == IF a < b THEN a ELSE b
Max(a, b) == IF a > b THEN a ELSE b

(***************************************************************************)
(* The DataView over the file.  The 16-byte PVRT header (and the GBIX      *)
(* section before it) are the fields of the buffer record; offsets below   *)
(* count from the first payload byte, and byteLength is the payload's.     *)
(* The payload bytes are one of three patterns.                            *)
(***************************************************************************)
Byte(view, i) ==
  CASE view.seed = "ramp" -> i % 256
    [] view.seed = "ones" -> 255
    [] view.seed = "mix" -> (i * 53 + 33) % 256

\* view.getUint8(offset) / view.getUint16(offset, true) inside the payload
getUint8(view, offset) == Byte(view, offset)
getUint16(view, offset) == Byte(view, offset) + 256 * Byte(view, offset + 1)

\* Whether a read of n bytes at offset stays inside the DataView; a read
\* that does not throws a RangeError.
InView(view, offset, n) == offset + n <= view.byteLength

(***************************************************************************)
(* src/lib/parsePvr.ts: PixelFormatCodec                                   *)
(***************************************************************************)
\* The four stores <<r, g, b, a>> of decodeRectable's switch for one pixel;
\* <<>> when no case matches and the pixel is left untouched.
decodeRectableStore(short, colorFormat) ==
  CASE colorFormat = ARGB1555 ->
         << Shr(BitAnd(short, 31744), 7),
            Shr(BitAnd(short, 992), 2),
            Shl(BitAnd(short, 31), 3),
            IF BitAnd(short, 32768) # 0 THEN 255 ELSE 0 >>
    [] colorFormat = RGB565 ->
         << BitAnd(Shr(short, 8), Shl(31, 3)),
            BitAnd(Shr(short, 3), Shl(63, 2)),
            BitAnd(Shl(short, 3), Shl(31, 3)),
            255 >>
    [] colorFormat = ARGB4444 ->
         << BitAnd(Shr(short, 4), 240),
            BitAnd(Shr(short, 0), 240),
            BitAnd(Shl(short, 4), 240),
            ToUint8Clamp(BitAnd(Shr(short, 8), 240), 255) >>
    [] OTHER -> << >>

\* The four stores <<r, g, b, a>> of drawImage's switch for image[i] = v;
\* <<>> in the default case, which only warns.
drawImageStore(v, colorFormat) ==
  LET px == ToInt(v) IN
  CASE colorFormat = ARGB1555 ->
         << Shr(BitAnd(px, 31744), 7),
            Shr(BitAnd(px, 992), 2),
            Shl(BitAnd(px, 31), 3),
            IF BitAnd(px, 32768) # 0 THEN 255 ELSE 0 >>
    [] colorFormat = RGB565 ->
         << BitAnd(Shr(px, 8), Shl(31, 3)),
            BitAnd(Shr(px, 3), Shl(63, 2)),
            BitAnd(Shl(px, 3), Shl(31, 3)),
            255 >>
    [] colorFormat = ARGB4444 ->
         << BitAnd(Shr(px, 4), 240),
            BitAnd(Shr(px, 0), 240),
            BitAnd(Shl(px, 4), 240),
            ToUint8Clamp(BitAnd(Shr(px, 8), 240), 255) >>
    [] colorFormat = RGB555 ->
         << Shr(BitAnd(px, 31744), 7),
            Shr(BitAnd(px, 992), 2),
            Shl(BitAnd(px, 31), 3),
            255 >>
    [] colorFormat = ARGB8888 ->
         << BitAnd(Shr(px, 16), 255),
            BitAnd(Shr(px, 8), 255),
            BitAnd(px, 255),
            BitAnd(Shr(px, 24), 255) >>
    [] OTHER -> << >>

\* colorToRGBA(colorValue, format): <<r, g, b, a>>, each Math.round-ed.
\* The default case warns and returns the initial r = g = b = 0, a = 255.
colorToRGBA(colorValue, format) ==
  CASE format = ARGB1555 ->
         << MathRound(BitAnd(Shr(colorValue, 10), 31) * 255, 31),
            MathRound(BitAnd(Shr(colorValue, 5), 31) * 255, 31),
            MathRound(BitAnd(colorValue, 31) * 255, 31),
            IF BitAnd(colorValue, 32768) # 0 THEN 255 ELSE 0 >>
    [] format = RGB565 ->
         << MathRound(BitAnd(Shr(colorValue, 11), 31) * 255, 31),
            MathRound(BitAnd(Shr(colorValue, 5), 63) * 255, 63),
            MathRound(BitAnd(colorValue, 31) * 255, 31),
            255 >>
    [] format = ARGB4444 ->
         << MathRound(BitAnd(Shr(colorValue, 8), 15) * 255, 15),
            MathRound(BitAnd(Shr(colorValue, 4), 15) * 255, 15),
            MathRound(BitAnd(colorValue, 15) * 255, 15),
            MathRound(BitAnd(Shr(colorValue, 12), 15) * 255, 15) >>
    [] format = RGB555 ->
         << MathRound(BitAnd(Shr(colorValue, 10), 31) * 255, 31),
            MathRound(BitAnd(Shr(colorValue, 5), 31) * 255, 31),
            MathRound(BitAnd(colorValue, 31) * 255, 31),
            255 >>
    [] format = ARGB8888 ->
         << BitAnd(Shr(colorValue, 16), 255),
            BitAnd(Shr(colorValue, 8), 255),
            BitAnd(colorValue, 255),
            BitAnd(Shr(colorValue, 24), 255) >>
    [] OTHER -> << 0, 0, 0, 255 >>

(***************************************************************************)
(* imageData.data: a Uint8ClampedArray of width * height * 4 bytes, zero   *)
(* at construction.  A store is <<byte index, value>>; a store at an index *)
(* outside the array is ignored, as a typed array ignores it.              *)
(***************************************************************************)
ByteRange(header) == 0 .. (header.width * header.height * 4 - 1)

ZeroImage(header) == [j \in ByteRange(header) |-> 0]

\* The pixel indices i = y * width + x of the image
Pixels(header) == 0 .. (header.width * header.height - 1)

\* The four stores of one pixel at byte index base
PixelStores(base, p) ==
  << <<base, p[1]>>, <<base + 1, p[2]>>, <<base + 2, p[3]>>, <<base + 3, p[4]>> >>

\* The iterations of a pixel loop are a sequence whose k-th element is the
\* four stores of iteration k, << >> when the iteration stores nothing.
\* The iterations that store to byte j:
StoresTo(stores, j) ==
  { k \in 1 .. Len(stores) :
      stores[k] # << >> /\ j - stores[k][1][1] \in 0 .. 3 }

\* data after the loop: byte j holds what the last iteration storing to it
\* stored
ApplyStores(data, stores) ==
  [j \in DOMAIN data |->
     LET hits == StoresTo(stores, j)
     IN IF hits = {} THEN data[j]
        ELSE LET k == CHOOSE m \in hits : \A n \in hits : n <= m
             IN stores[k][j - stores[k][1][1] + 1][2]]

\* the number of stores to every byte
CountStores(writes, stores) ==
  [j \in DOMAIN writes |-> writes[j] + Cardinality(StoresTo(stores, j))]

\* What a pixel-layout decoder leaves behind: the error it threw (NoError
\* when it returned), the pixel bytes, the number of stores to every byte,
\* and the intermediate values the decoder computed.
Outcome(err, data, writes, clutSize, bodyData, placed) ==
  [err |-> err, data |-> data, writes |-> writes, clutSize |-> clutSize,
   bodyData |-> bodyData, placed |-> placed, lookUpTable |-> << >>]

\* The outcome of a decoder that built the detwiddling table lookUp first
WithTable(lookUp, out) ==
  IF lookUp.err = NoError THEN [out EXCEPT !.lookUpTable = lookUp.table] ELSE out

Thrown(err, header) ==
  Outcome(err, ZeroImage(header), ZeroImage(header), 0, << >>, << >>)

(***************************************************************************)
(* src/lib/parsePvr.ts: MortonIndexer                                      *)
(***************************************************************************)
isPowerOfTwo(n) == n > 0 /\ \E k \in 0 .. 16 : n = Pow2(k)

\* The bit-interleaving loop of getTwiddledIndex from bit i on: bit i of x
\* goes to bit 2i of the index and bit i of y to bit 2i + 1; the loop ends
\* after the first i with 1 << (i + 1) > maxDimension.
RECURSIVE InterleaveFrom(_, _, _, _)
InterleaveFrom(x, y, i, maxDimension) ==
  (IF Shr(x, i) % 2 = 1 THEN Pow2(2 * i) ELSE 0)
  + (IF Shr(y, i) % 2 = 1 THEN Pow2(2 * i + 1) ELSE 0)
  + (IF Pow2(i + 1) > maxDimension \/ i = 31 THEN 0
     ELSE InterleaveFrom(x, y, i + 1, maxDimension))

\* getTwiddledIndex(x, y, width, height): the index, or Undefined where the
\* code throws "Generated index ... is out of bounds".
getTwiddledIndex(x, y, width, height) ==
  LET index == InterleaveFrom(x, y, 0, Max(width, height))
  IN IF index >= width * height THEN Undefined ELSE index

\* createDetwiddlingLookupTable(width, height): result[index] = {x: y, y: x}
\* for the (x, y) whose twiddled index is index; an index no (x, y) has is a
\* hole of the array.  err is the error thrown, if any.
createDetwiddlingLookupTableMirror(width, height) ==
  IF ~isPowerOfTwo(width) \/ ~isPowerOfTwo(height)
  THEN [err |-> ErrPowerOfTwo, table |-> << >>]
  ELSE IF \E x \in 0 .. (width - 1), y \in 0 .. (height - 1) :
            getTwiddledIndex(x, y, width, height) = Undefined
  THEN [err |-> ErrGeneratedIndex, table |-> << >>]
  ELSE [err |-> NoError,
        table |-> [index \in 0 .. (width * height - 1) |->
          LET at == {c \in (0 .. (width - 1)) \X (0 .. (height - 1)) :
                       getTwiddledIndex(c[1], c[2], width, height) = index}
          IN IF at = {} THEN << >>
             ELSE LET c == CHOOSE c \in at : TRUE IN [x |-> c[1], y |-> c[2]]]]

createDetwiddlingLookupTable(width, height) ==
  IF ~isPowerOfTwo(width) \/ ~isPowerOfTwo(height)
  THEN [err |-> ErrPowerOfTwo, table |-> << >>]
  ELSE IF \E x \in 0 .. (width - 1), y \in 0 .. (height - 1) :
            getTwiddledIndex(x, y, width, height) = Undefined
  THEN [err |-> ErrGeneratedIndex, table |-> << >>]
  ELSE [err |-> NoError,
        table |-> [index \in 0 .. (width * height - 1) |->
          LET at == {c \in (0 .. (width - 1)) \X (0 .. (height - 1)) :
                       getTwiddledIndex(c[1], c[2], width, height) = index}
          IN IF at = {} THEN << >>
             ELSE LET c == CHOOSE c \in at : TRUE IN [x |-> c[2], y |-> c[1]]]]

\* lookUpTable[i] of the code: << >> (undefined) past the end or at a hole
TableAt(table, i) == IF i \in DOMAIN table THEN table[i] ELSE << >>

\* The number of values subdivideAndMove(x, y, mipSize) reads
RECURSIVE Leaves(_)
Leaves(mipSize) == IF mipSize = 1 THEN 1 ELSE 4 * Leaves(mipSize \div 2)

\* subdivideAndMove(x, y, mipSize) of readTwiddled, started when k values
\* have been read: the function from the list positions it fills to the
\* ordinal of the stored value each receives.  The four recursive calls
\* read in the order (x, y), (x, y + ns), (x + ns, y), (x + ns, y + ns).
RECURSIVE subdivideAndMove(_, _, _, _, _)
subdivideAndMove(x, y, mipSize, width, k) ==
  IF mipSize = 1 THEN (y * width + x) :> k
  ELSE LET ns == mipSize \div 2
           c == Leaves(ns)
       IN subdivideAndMove(x, y, ns, width, k)
          @@ subdivideAndMove(x, y + ns, ns, width, k + c)
          @@ subdivideAndMove(x + ns, y, ns, width, k + 2 * c)
          @@ subdivideAndMove(x + ns, y + ns, ns, width, k + 3 * c)

\* readTwiddled(view, offset, width, isVq): the list of width * width
\* entries (Undefined where nothing was stored), the placement and the
\* error thrown.  width is an integer here; decodeVector checks that first.
readTwiddled(view, offset, width, isVq) ==
  LET size == IF isVq THEN 1 ELSE 2
      placed == subdivideAndMove(0, 0, width, width, 0)
  IN IF ~InView(view, offset, Leaves(width) * size)
     THEN [err |-> ErrRange, list |-> << >>, placed |-> placed]
     ELSE [err |-> NoError,
           placed |-> placed,
           list |-> [p \in 0 .. (width * width - 1) |->
                       IF p \notin DOMAIN placed THEN Undefined
                       ELSE IF isVq THEN getUint8(view, offset + placed[p])
                       ELSE getUint16(view, offset + 2 * placed[p])]]

(***************************************************************************)
(* src/lib/parsePvr.ts: the pixel-layout decoders                          *)
(***************************************************************************)
\* decodeRectable: row-major 16-bit pixels
decodeRectable(view, offset, header) ==
  LET store(i) == decodeRectableStore(getUint16(view, offset + 2 * i), header.colorFormat)
  IN IF ~InView(view, offset, 2 * header.width * header.height)
     THEN Thrown(ErrRange, header)
     ELSE Outcome(NoError,
                  [j \in ByteRange(header) |->
                     IF store(j \div 4) = << >> THEN 0 ELSE store(j \div 4)[(j % 4) + 1]],
                  [j \in ByteRange(header) |->
                     IF store(j \div 4) = << >> THEN 0 ELSE 1],
                  0, << >>, << >>)

\* drawImage(header, image, imageData): image is the array of raw values,
\* a function on 0 .. image.length - 1.  A pixel past image.length is
\* skipped with a warning; so is one whose color format has no case.
drawImage(header, image) ==
  LET length == Cardinality(DOMAIN image)
      store(i) == IF i >= length THEN << >>
                  ELSE drawImageStore(image[i], header.colorFormat)
  IN [data |-> [j \in ByteRange(header) |->
                  IF store(j \div 4) = << >> THEN 0 ELSE store(j \div 4)[(j % 4) + 1]],
      writes |-> [j \in ByteRange(header) |->
                  IF store(j \div 4) = << >> THEN 0 ELSE 1]]

\* A mipmap skip from level i on that takes in the level equal to width
RECURSIVE TwiddleMipSkipThrough(_, _)
TwiddleMipSkipThrough(i, width) ==
  IF i > 10 THEN 0
  ELSE Pow2(i) * Pow2(i) * 2
       + (IF width = Pow2(i) THEN 0 ELSE TwiddleMipSkipThrough(i + 1, width))

\* The mipmap skip of decodeTwiddle from level i on: mipWidth * mipWidth * 2
\* bytes for every mipWidth = 1 << i, i <= 10, before the one equal to width
RECURSIVE TwiddleMipSkip(_, _)
TwiddleMipSkip(i, width) ==
  IF i > 10 \/ width = Pow2(i) THEN 0
  ELSE Pow2(i) * Pow2(i) * 2 + TwiddleMipSkip(i + 1, width)

decodeTwiddle(view, offset, header) ==
  LET seekOfs == IF header.hasMipmaps THEN 2 + TwiddleMipSkip(0, header.width) ELSE 0
      image == readTwiddled(view, offset + seekOfs, header.width, FALSE)
      drawn == drawImage(header, image.list)
  IN IF image.err # NoError
     THEN [Thrown(image.err, header) EXCEPT !.placed = image.placed]
     ELSE Outcome(NoError, drawn.data, drawn.writes, 0, << >>, image.placed)

\* The codebook size decodeVector chooses (clutSize)
clutSizeSwapped(isSmall, hasMipmaps, width) ==
  IF ~isSmall THEN 256
  ELSE IF ~hasMipmaps
       THEN CASE width \in {8, 16} -> 16
              [] width = 32 -> 64
              [] OTHER -> 256
       ELSE CASE width \in {8, 16} -> 16
              [] width = 32 -> 32
              [] width = 64 -> 128
              [] OTHER -> 256

clutSizeOf(isSmall, hasMipmaps, width) ==
  IF ~isSmall THEN 256
  ELSE IF hasMipmaps
       THEN CASE width \in {8, 16} -> 16
              [] width = 32 -> 64
              [] OTHER -> 256
       ELSE CASE width \in {8, 16} -> 16
              [] width = 32 -> 32
              [] width = 64 -> 128
              [] OTHER -> 256

\* The mipmap skip of decodeVector from level i on, in quarter bytes:
\* (mipWidth * mipWidth) / 4 is 0.25 for mipWidth = 1
RECURSIVE VectorMipSkipQuarters(_, _)
VectorMipSkipQuarters(i, width) ==
  IF i > 10 \/ width = Pow2(i) THEN 0
  ELSE Pow2(i) * Pow2(i) + VectorMipSkipQuarters(i + 1, width)

\* decodeVector: the codebook of clutSize * 4 16-bit values, the mipmap
\* skip, the twiddled index bytes at half resolution and the expansion of
\* every index into its 2x2 block.  A DataView read at a fractional offset
\* reads at the offset truncated.  new Array((width / 2) ^ 2) throws a
\* RangeError when width is odd.
decodeVector(view, offset, header) ==
  LET width == header.width
      height == header.height
      clutSize == clutSizeOf(header.isSmall, header.hasMipmaps, width)
      clut(c) == IF c < clutSize * 4 THEN getUint16(view, offset + 2 * c) ELSE Undefined
      seekOfs == IF header.hasMipmaps
                 THEN (4 + VectorMipSkipQuarters(0, width)) \div 4 ELSE 0
      bodyOffset == offset + clutSize * 8 + seekOfs
      half == width \div 2
      dataBody == readTwiddled(view, bodyOffset, half, TRUE)
      image == [pix \in 0 .. (width * height - 1) |->
                  LET x == (pix % width) \div 2
                      y == (pix \div width) \div 2
                      xOfs == (pix % width) % 2
                      yOfs == (pix \div width) % 2
                  IN IF y >= half THEN Undefined
                     ELSE IF dataBody.list[y * half + x] = Undefined THEN Undefined
                     ELSE clut(dataBody.list[y * half + x] * 4 + 2 * xOfs + yOfs)]
      drawn == drawImage(header, image)
      failed(err) == [Thrown(err, header) EXCEPT !.clutSize = clutSize]
  IN IF ~InView(view, offset, clutSize * 8) THEN failed(ErrRange)
     ELSE IF width % 2 = 1 THEN failed(ErrRange)
     ELSE IF dataBody.err # NoError THEN failed(dataBody.err)
     ELSE Outcome(NoError, drawn.data, drawn.writes, clutSize, << >>, dataBody.placed)

\* The 16-entry grayscale ramp decodePalette builds
GrayPalette == [k \in 0 .. 15 |-> << 16 * k, 16 * k, 16 * k, 255 >>]

\* The indices decodePalette extracts: byte & 0x0f pushed twice per byte
decodePaletteBody(view, offset) ==
  [n \in 1 .. (2 * Max(0, view.byteLength - offset)) |->
     BitAnd(getUint8(view, offset + (n - 1) \div 2), 15)]

\* decodePalette: the grayscale fallback for all four palettized layouts
decodePalette(view, offset, header) ==
  LET width == header.width
      height == header.height
      bodyData == decodePaletteBody(view, offset)
      wide == width > height
      lookUp == IF wide THEN createDetwiddlingLookupTable(height, height)
                ELSE createDetwiddlingLookupTable(width, height)
      count == IF wide THEN Len(bodyData) \div 2 ELSE Len(bodyData)
      at(i) == TableAt(lookUp.table, i)
      base(i) == at(i).y * width * 4 + at(i).x * 4
      stores ==
        IF wide
        THEN [i \in 1 .. count |->
                        PixelStores(base(i - 1), GrayPalette[bodyData[i]])]
             \o [i \in 1 .. count |->
                        PixelStores(base(i - 1) + width * 2,
                                    GrayPalette[bodyData[count + i]])]
        ELSE [i \in 1 .. count |->
                        PixelStores(base(i - 1), GrayPalette[bodyData[i]])]
  IN WithTable(lookUp,
       IF lookUp.err # NoError THEN Thrown(lookUp.err, header)
       ELSE IF \E i \in 0 .. (count - 1) : at(i) = << >> THEN Thrown(ErrType, header)
       ELSE Outcome(NoError,
                    ApplyStores(ZeroImage(header), stores),
                    CountStores(ZeroImage(header), stores),
                    0, bodyData, << >>))

\* The indices decodePaletteWithExternalData extracts
externalBody(view, offset, is4BitPalette) ==
  IF is4BitPalette
  THEN [n \in 1 .. (2 * Max(0, view.byteLength - offset)) |->
          LET byte == getUint8(view, offset + (n - 1) \div 2)
          IN IF n % 2 = 1 THEN BitAnd(Shr(byte, 4), 15) ELSE BitAnd(byte, 15)]
  ELSE [n \in 1 .. Max(0, view.byteLength - offset) |->
          getUint8(view, offset + n - 1)]

\* decodePaletteWithExternalData: externalPalette is the number[] the caller
\* passes.  The color of every index is converted with header.colorFormat.
decodePaletteWithExternalData(view, offset, header, externalPalette) ==
  LET width == header.width
      height == header.height
      is4BitPalette == header.dataFormat \in {PALETTIZE4, PALETTIZE4_MM}
      lookUp == IF is4BitPalette
                THEN createDetwiddlingLookupTable(Min(width, height), Min(width, height))
                ELSE createDetwiddlingLookupTable(width, height)
      bodyData == externalBody(view, offset, is4BitPalette)
      count == Min(Len(bodyData), width * height)
      skipped(i) == bodyData[i + 1] >= Len(externalPalette)
      at(i) == TableAt(lookUp.table, i)
      stores ==
        [i \in 1 .. count |->
                   IF skipped(i - 1) THEN << >>
                   ELSE PixelStores((at(i - 1).y * width + at(i - 1).x) * 4,
                                    colorToRGBA(externalPalette[bodyData[i] + 1],
                                                header.colorFormat))]
  IN WithTable(lookUp,
       IF lookUp.err # NoError THEN Thrown(lookUp.err, header)
       ELSE IF \E i \in 0 .. (count - 1) : ~skipped(i) /\ at(i) = << >>
       THEN Thrown(ErrType, header)
       ELSE Outcome(NoError,
                    ApplyStores(ZeroImage(header), stores),
                    CountStores(ZeroImage(header), stores),
                    0, bodyData, << >>))

(***************************************************************************)
(* src/lib/parsePvr.ts: parsePvr                                           *)
(***************************************************************************)
NoPalette == [present |-> FALSE, palette |-> << >>]

\* The header parsePvr builds from the bytes of the buffer
HeaderOf(buffer, mipmapped, small) ==
  [colorFormat |-> buffer.colorFormat,
   dataFormat |-> buffer.dataFormat,
   width |-> buffer.width,
   height |-> buffer.height,
   hasMipmaps |-> buffer.dataFormat \in mipmapped,
   isSmall |-> buffer.dataFormat \in small,
   globalIndex |-> IF buffer.gbixSize # Undefined /\ buffer.gbixSize >= 4
                   THEN buffer.globalIndex ELSE Undefined,
   usedExternalPalette |-> FALSE]

\* What a parsePvr call comes to: the error of the rejected promise, or
\* the header and the pixel-layout decoder's outcome; ran names the
\* pixel-layout decoder the switch called ("none" when it called none).
Parsed(err, header, ran, out) ==
  [err |-> err, header |-> header, ran |-> ran, out |-> out]

parsePvr(buffer, externalPalette) ==
  LET header == HeaderOf(buffer,
                  {TWIDDLED_MM, VQ_MM, PALETTIZE4_MM, PALETTIZE8_MM, SMALL_VQ_MM},
                  {SMALL_VQ, SMALL_VQ_MM})
      dataFormat == header.dataFormat
      run(ran, out) == Parsed(out.err, header, ran, out)
  IN IF buffer.magic # "PVRT"
     THEN Parsed(ErrInvalidMagic, header, "none", Thrown(ErrInvalidMagic, header))
     ELSE CASE dataFormat = RECTANGLE ->
                 run("decodeRectable", decodeRectable(buffer, 0, header))
            [] dataFormat \in {TWIDDLED, TWIDDLED_MM, TWIDDLED_MM_ALT} ->
                 run("decodeTwiddle", decodeTwiddle(buffer, 0, header))
            [] dataFormat \in {VQ, VQ_MM, SMALL_VQ, SMALL_VQ_MM} ->
                 run("decodeVector", decodeVector(buffer, 0, header))
            [] dataFormat \in {PALETTIZE4, PALETTIZE4_MM, PALETTIZE8, PALETTIZE8_MM} ->
                 IF externalPalette.present
                 THEN LET out == decodePaletteWithExternalData(
                                   buffer, 0, header, externalPalette.palette)
                      IN Parsed(out.err, [header EXCEPT !.usedExternalPalette = TRUE],
                                "decodePaletteWithExternalData", out)
                 ELSE run("decodePalette", decodePalette(buffer, 0, header))
            [] OTHER ->
                 Parsed(ErrUnsupported, header, "none", Thrown(ErrUnsupported, header))

(***************************************************************************)
(* src/unnamed/part_001: the decoder inside the PVRImage component         *)
(***************************************************************************)
\* calculateMipmapSize(width, height, dataFormat)
RECURSIVE calculateMipmapSize(_, _, _)
calculateMipmapSize(mipWidth, mipHeight, dataFormat) ==
  IF ~(mipWidth > 1 \/ mipHeight > 1) THEN 0
  ELSE LET w == Max(1, Shr(mipWidth, 1))
           h == Max(1, Shr(mipHeight, 1))
       IN (IF dataFormat \in {VQ, VQ_MM} THEN (w * h + 3) \div 4 ELSE w * h * 2)
          + calculateMipmapSize(w, h, dataFormat)

\* convertPixelFormat(pixel, format): the packed ABGR value as the bytes
\* <<r, g, b, a>> it has in imageData.data
convertPixelFormat(pixel, format) ==
  LET c == CASE format = ARGB1555 ->
                  << Shl(BitAnd(Shr(pixel, 10), 31), 3),
                     Shl(BitAnd(Shr(pixel, 5), 31), 3),
                     Shl(BitAnd(pixel, 31), 3),
                     IF BitAnd(pixel, 32768) # 0 THEN 255 ELSE 0 >>
             [] format = RGB565 ->
                  << Shl(BitAnd(Shr(pixel, 11), 31), 3),
                     Shl(BitAnd(Shr(pixel, 5), 63), 2),
                     Shl(BitAnd(pixel, 31), 3),
                     255 >>
             [] format = ARGB4444 ->
                  << Shl(BitAnd(Shr(pixel, 8), 15), 4),
                     Shl(BitAnd(Shr(pixel, 4), 15), 4),
                     Shl(BitAnd(pixel, 15), 4),
                     Shl(BitAnd(Shr(pixel, 12), 15), 4) >>
             [] format = RGB555 ->
                  << Shl(BitAnd(Shr(pixel, 10), 31), 3),
                     Shl(BitAnd(Shr(pixel, 5), 31), 3),
                     Shl(BitAnd(pixel, 31), 3),
                     255 >>
             [] OTHER -> << 0, 0, 0, 255 >>
  IN << BitOr(c[1], Shr(c[1], 5)),
        BitOr(c[2], IF format = RGB565 THEN Shr(c[2], 6) ELSE Shr(c[2], 5)),
        BitOr(c[3], Shr(c[3], 5)),
        c[4] >>

\* untwiddle(x, y): bit i of x to bit 2i, bit i of y to bit 2i + 1, 16 bits.
\* The memo table only saves the recomputation.
RECURSIVE untwiddleFrom(_, _, _)
untwiddleFrom(x, y, i) ==
  IF i = 16 THEN 0
  ELSE (IF Shr(x, i) % 2 = 1 THEN Pow2(2 * i) ELSE 0)
       + (IF Shr(y, i) % 2 = 1 THEN Pow2(2 * i + 1) ELSE 0)
       + untwiddleFrom(x, y, i + 1)

untwiddle(x, y) == untwiddleFrom(x, y, 0)

\* The bytes and store counts of a decoder that writes pixel i, when
\* covered(i), once with the 16-bit value read at byte offset at(i)
PixelwiseOutcome(view, header, covered, at, clut) ==
  LET rgba(i) == convertPixelFormat(getUint16(view, at[i]), header.colorFormat)
  IN Outcome(NoError,
             [j \in ByteRange(header) |->
                IF covered[j \div 4] THEN rgba(j \div 4)[(j % 4) + 1] ELSE 0],
             [j \in ByteRange(header) |-> IF covered[j \div 4] THEN 1 ELSE 0],
             clut, << >>, << >>)

\* decodeTwiddled of the component: every read is bounds-checked
decodeTwiddled(view, offset, header) ==
  LET i(p) == untwiddle(p % header.width, p \div header.width)
      covered == [p \in Pixels(header) |-> i(p) * 2 + offset + 2 <= view.byteLength]
      at == [p \in Pixels(header) |-> offset + i(p) * 2]
  IN PixelwiseOutcome(view, header, covered, at, 0)

\* decodeRectangle and decodeRaw of the component: the same row-major loop
decodeRectangle(view, offset, header) ==
  LET covered == [p \in Pixels(header) |-> offset + p * 2 + 2 <= view.byteLength]
      at == [p \in Pixels(header) |-> offset + p * 2]
  IN PixelwiseOutcome(view, header, covered, at, 0)

decodeRaw(view, offset, header) ==
  LET covered == [p \in Pixels(header) |-> offset + p * 2 + 2 <= view.byteLength]
      at == [p \in Pixels(header) |-> offset + p * 2]
  IN PixelwiseOutcome(view, header, covered, at, 0)

\* decodeTwiddledRectangle of the component: count squares of side
\* min(width, height); the reads are not bounds-checked
decodeTwiddledRectangle(view, offset, header) ==
  LET width == header.width
      height == header.height
      size == Min(width, height)
      count == Max(width \div size, height \div size)
      horizontal == width > height
      n(p) == IF horizontal THEN (p % width) \div size ELSE (p \div width) \div size
      x(p) == IF horizontal THEN (p % width) % size ELSE p % width
      y(p) == IF horizontal THEN p \div width ELSE (p \div width) % size
      covered == [p \in Pixels(header) |-> n(p) < count /\ x(p) < size /\ y(p) < size]
      at == [p \in Pixels(header) |-> offset + n(p) * size * size * 2 + untwiddle(x(p), y(p)) * 2]
      last == offset + (count - 1) * size * size * 2
              + untwiddle(size - 1, size - 1) * 2
  IN IF ~InView(view, last, 2) THEN Thrown(ErrRange, header)
     ELSE PixelwiseOutcome(view, header, covered, at, 0)

\* The codebook size the component chooses for VQ and VQ_MM
codebookSizeOf(width, height) ==
  IF width <= 16 /\ height <= 16 THEN 16
  ELSE IF width <= 32 /\ height <= 32 THEN 32
  ELSE IF width <= 64 /\ height <= 64 THEN 128
  ELSE 256

\* decodeVQ of the component: codebook entry index * 4 + q goes to the
\* pixel (x + q % 2, y + q \div 2) of the block; reads are bounds-checked
decodeVQ(view, offset, header, codebookOffset, codebookSize) ==
  LET width == header.width
      i(p) == untwiddle((p % width) \div 2, (p \div width) \div 2)
      index(p) == getUint8(view, offset + i(p))
      covered == [p \in Pixels(header) |-> offset + i(p) < view.byteLength /\ index(p) < codebookSize]
      at == [p \in Pixels(header) |->
               codebookOffset
               + (index(p) * 4 + 2 * ((p \div width) % 2) + ((p % width) % 2)) * 2]
  IN PixelwiseOutcome(view, header, covered, at, codebookSize)

\* parsePvr of the component.  Any data format without a branch of its own
\* is decoded by decodeRaw.
PVRImage_parsePvr(buffer) ==
  LET header == [colorFormat |-> buffer.colorFormat,
                 dataFormat |-> buffer.dataFormat,
                 width |-> buffer.width,
                 height |-> buffer.height,
                 hasMipmaps |-> buffer.dataFormat \in
                   {TWIDDLED_MM, VQ_MM, PALETTIZE4_MM, PALETTIZE8_MM},
                 globalIndex |-> IF buffer.gbixSize # Undefined /\ buffer.gbixSize >= 4
                                 THEN buffer.globalIndex ELSE Undefined]
      dataFormat == header.dataFormat
      skipped == IF header.hasMipmaps
                 THEN calculateMipmapSize(header.width, header.height, dataFormat)
                 ELSE 0
      isVq == dataFormat \in {VQ, VQ_MM}
      codebookSize == codebookSizeOf(header.width, header.height)
      offset == IF isVq THEN skipped + codebookSize * 8 ELSE skipped
      run(ran, out) == Parsed(out.err, header, ran, out)
  IN IF buffer.magic # "PVRT"
     THEN Parsed(ErrInvalidMagic, header, "none", Thrown(ErrInvalidMagic, header))
     ELSE IF isVq /\ ~InView(buffer, skipped, codebookSize * 8)
     THEN Parsed(ErrRange, header, "none",
                 [Thrown(ErrRange, header) EXCEPT !.clutSize = codebookSize])
     ELSE CASE dataFormat \in {TWIDDLED, TWIDDLED_MM} ->
                 run("decodeTwiddled", decodeTwiddled(buffer, offset, header))
            [] isVq ->
                 run("decodeVQ", decodeVQ(buffer, offset, header, skipped, codebookSize))
            [] dataFormat = TWIDDLED_RECTANGLE ->
                 run("decodeTwiddledRectangle",
                     decodeTwiddledRectangle(buffer, offset, header))
            [] dataFormat = RECTANGLE ->
                 run("decodeRectangle", decodeRectangle(buffer, offset, header))
            [] OTHER ->
                 run("decodeRaw", decodeRaw(buffer, offset, header))

(***************************************************************************)
(* src/unnamed/part_005: the revision of the library with parsePvm and     *)
(* decodeRectangleTwiddled.  Its decodeRectable, decodeTwiddle,            *)
(* decodeVector and Morton table are those of src/lib/parsePvr.ts.         *)
(***************************************************************************)
\* The four stores of decodeRectangleTwiddled's switch for the i-th value
\* of a block; the default case stores the gray level i % 256.
decodeRectangleTwiddledStore(color, colorFormat, i) ==
  CASE colorFormat = ARGB1555 ->
         << Shr(BitAnd(color, 31744), 7),
            Shr(BitAnd(color, 992), 2),
            Shl(BitAnd(color, 31), 3),
            IF BitAnd(color, 32768) # 0 THEN 255 ELSE 0 >>
    [] colorFormat = RGB565 ->
         << BitAnd(Shr(color, 8), Shl(31, 3)),
            BitAnd(Shr(color, 3), Shl(63, 2)),
            BitAnd(Shl(color, 3), Shl(31, 3)),
            255 >>
    [] colorFormat = ARGB4444 ->
         << BitAnd(Shr(color, 8), 15) * 17,
            BitAnd(Shr(color, 4), 15) * 17,
            BitAnd(color, 15) * 17,
            BitAnd(Shr(color, 12), 15) * 17 >>
    [] colorFormat = RGB555 ->
         << Shr(BitAnd(color, 31744), 7),
            Shr(BitAnd(color, 992), 2),
            Shl(BitAnd(color, 31), 3),
            255 >>
    [] OTHER -> << i % 256, i % 256, i % 256, 255 >>

\* The number of iterations of for (b = 0; b < num / den; b++)
LoopCount(num, den) == (num + den - 1) \div den

\* decodeRectangleTwiddled: blocks of side min(width, height), each read
\* in twiddled order through the lookup table of one square, block b at
\* x-offset (width > height) or y-offset (height > width) b * squareSize.
decodeRectangleTwiddled(view, offset, header) ==
  LET width == header.width
      height == header.height
      squareSize == IF width > height THEN height ELSE width
      blocks == IF width > height THEN LoopCount(width, squareSize)
                ELSE IF height > width THEN LoopCount(height, squareSize)
                ELSE 1
      lookUp == IF width = height THEN createDetwiddlingLookupTable(width, height)
                ELSE createDetwiddlingLookupTable(squareSize, squareSize)
      perBlock == squareSize * squareSize
      pixelIndex(block, i) ==
        LET c == lookUp.table[i]
            blockOffset == block * squareSize
        IN IF width > height THEN (c.y * width + (c.x + blockOffset)) * 4
           ELSE IF height > width THEN ((c.y + blockOffset) * width + c.x) * 4
           ELSE (c.y * width + c.x) * 4
      stores ==
        [k \in 1 .. (blocks * perBlock) |->
                   LET block == (k - 1) \div perBlock
                       i == (k - 1) % perBlock
                   IN PixelStores(pixelIndex(block, i),
                        decodeRectangleTwiddledStore(
                          getUint16(view, offset + 2 * (k - 1)), header.colorFormat, i))]
  IN IF lookUp.err # NoError THEN Thrown(lookUp.err, header)
     ELSE IF ~InView(view, offset, 2 * blocks * perBlock) THEN Thrown(ErrRange, header)
     ELSE Outcome(NoError,
                  ApplyStores(ZeroImage(header), stores),
                  CountStores(ZeroImage(header), stores),
                  0, << >>, << >>)

\* The indices decodePalette of this revision extracts: the byte itself
\* for PALETTIZE8, else byte & 0x0f and then byte >> 4
decodePalette005Body(view, offset, dataFormat) ==
  IF dataFormat = PALETTIZE8
  THEN [n \in 1 .. Max(0, view.byteLength - offset) |-> getUint8(view, offset + n - 1)]
  ELSE [n \in 1 .. (2 * Max(0, view.byteLength - offset)) |->
          LET byte == getUint8(view, offset + (n - 1) \div 2)
          IN IF n % 2 = 1 THEN BitAnd(byte, 15) ELSE Shr(byte, 4)]

\* decodePalette of this revision: externalPalette is an array of
\* [r, g, b, a] arrays, [] when the caller passed none.  A palette entry or
\* a table entry that is undefined throws a TypeError.
decodePalette005(view, offset, header, externalPalette) ==
  LET width == header.width
      height == header.height
      pal == IF header.dataFormat = PALETTIZE8
             THEN [k \in 1 .. 255 |-> << k - 1, k - 1, k - 1, 255 >>]
             ELSE [k \in 1 .. 16 |-> GrayPalette[k - 1]]
      colors == IF header.usedExternalPalette THEN externalPalette ELSE pal
      bodyData == decodePalette005Body(view, offset, header.dataFormat)
      lookUp == IF width > height THEN createDetwiddlingLookupTable(height, height)
                ELSE IF height > width THEN createDetwiddlingLookupTable(width, width)
                ELSE createDetwiddlingLookupTable(width, height)
      blocks == IF width > height THEN LoopCount(width, height)
                ELSE IF height > width THEN LoopCount(height, width)
                ELSE 1
      \* i < bodyData.length / count, count = width / height or height / width
      perBlock == IF width > height THEN LoopCount(Len(bodyData) * height, width)
                  ELSE IF height > width THEN LoopCount(Len(bodyData) * width, height)
                  ELSE Len(bodyData)
      defined(c, i) ==
        /\ TableAt(lookUp.table, i) # << >>
        /\ c * perBlock + i < Len(bodyData)
        /\ bodyData[c * perBlock + i + 1] < Len(colors)
      base(c, i) ==
        LET at == lookUp.table[i]
        IN IF width > height THEN at.y * width * 4 + at.x * 4 + width * c * 2
           ELSE IF height > width THEN width * width * 4 * c + at.y * width * 4 + at.x * 4
           ELSE at.y * width * 4 + at.x * 4
      stores ==
        [k \in 1 .. (blocks * perBlock) |->
                   LET c == (k - 1) \div perBlock
                       i == (k - 1) % perBlock
                   IN PixelStores(base(c, i), colors[bodyData[k] + 1])]
  IN IF lookUp.err # NoError THEN Thrown(lookUp.err, header)
     ELSE IF \E c \in 0 .. (blocks - 1), i \in 0 .. (perBlock - 1) : ~defined(c, i)
     THEN Thrown(ErrType, header)
     ELSE Outcome(NoError,
                  ApplyStores(ZeroImage(header), stores),
                  CountStores(ZeroImage(header), stores),
                  0, bodyData, << >>)

\* parsePvr of this revision: TWIDDLED_RECTANGLE has a case of its own;
\* PALETTIZE4_MM and PALETTIZE8_MM have none.
parsePvr005(buffer, externalPalette) ==
  LET header == HeaderOf(buffer,
                  {TWIDDLED_MM, VQ_MM, PALETTIZE4_MM, PALETTIZE8_MM, SMALL_VQ_MM},
                  {SMALL_VQ, SMALL_VQ_MM})
      dataFormat == header.dataFormat
      run(ran, out) == Parsed(out.err, header, ran, out)
  IN IF buffer.magic # "PVRT"
     THEN Parsed(ErrInvalidMagic, header, "none", Thrown(ErrInvalidMagic, header))
     ELSE CASE dataFormat = RECTANGLE ->
                 run("decodeRectable", decodeRectable(buffer, 0, header))
            [] dataFormat \in {TWIDDLED, TWIDDLED_MM, TWIDDLED_MM_ALT} ->
                 run("decodeTwiddle", decodeTwiddle(buffer, 0, header))
            [] dataFormat \in {VQ, VQ_MM, SMALL_VQ, SMALL_VQ_MM} ->
                 run("decodeVector", decodeVector(buffer, 0, header))
            [] dataFormat \in {PALETTIZE4, PALETTIZE8} ->
                 LET used == [header EXCEPT !.usedExternalPalette = externalPalette.present]
                     out == decodePalette005(buffer, 0, used, externalPalette.palette)
                 IN Parsed(out.err, used, "decodePalette", out)
            [] dataFormat = TWIDDLED_RECTANGLE ->
                 run("decodeRectangleTwiddled", decodeRectangleTwiddled(buffer, 0, header))
            [] OTHER ->
                 Parsed(ErrUnsupported, header, "none", Thrown(ErrUnsupported, header))

(***************************************************************************)
(* Texture archives (PVM).  An archive is the sequence of its bytes; the   *)
(* byte at offset o is bytes[o + 1].  Three functions of the repository    *)
(* decode archives: parsePVMFile of components/PVMViewer.tsx and of        *)
(* components/PVRImage.tsx read the layout with a flags word and scanned   *)
(* PVRT markers, parsePvm of unnamed/part_005 reads the layout with a      *)
(* directory of names, offsets and sizes.  The 32-bit fields of the        *)
(* archives of this model are below 2^31.                                  *)
(***************************************************************************)
ErrSignature == "Invalid PVM file signature. Expected 'PVMH'"
ErrNoPvmh == "Invalid PVM file format (missing PVMH header)"
ErrNoPvrt == "Could not find PVRT signature for texture"

\* String.fromCharCode of the four bytes of a magic
PVMH == << 80, 86, 77, 72 >>
PVRT == << 80, 86, 82, 84 >>

\* const maxAttempts = 5000 of the marker search of PVRImage.tsx
maxAttempts == 5000

\* Whether a DataView read of n bytes at offset stays inside the file
InFile(bytes, offset, n) == offset >= 0 /\ offset + n <= Len(bytes)

\* dataView.getUint16(offset, true), dataView.getUint32(offset, true)
fileUint16(bytes, offset) == bytes[offset + 1] + 256 * bytes[offset + 2]
fileUint32(bytes, offset) ==
  fileUint16(bytes, offset) + 65536 * fileUint16(bytes, offset + 2)

\* the four characters read at offset
MagicAt(bytes, offset) == SubSeq(bytes, offset + 1, offset + 4)

\* arrayBuffer.slice(begin, end): the byte range [first, final) of the
\* parent buffer that the copy holds, both ends clamped to the buffer
Slice(bytes, begin, end) ==
  LET first == Min(begin, Len(bytes))
  IN [first |-> first, final |-> Max(first, Min(end, Len(bytes)))]

\* the result of an archive decode: the error thrown, or the entries
Archive(err, entries) == [err |-> err, entries |-> entries]

\* The bytes of one metadata record of parsePVMFile: the id, then the
\* name, format, dimensions and global index that the flags announce
metadataSize(textureFlags) ==
  2 + (IF BitAnd(textureFlags, 8) # 0 THEN 28 ELSE 0)
    + (IF BitAnd(textureFlags, 4) # 0 THEN 2 ELSE 0)
    + (IF BitAnd(textureFlags, 2) # 0 THEN 2 ELSE 0)
    + (IF BitAnd(textureFlags, 1) # 0 THEN 4 ELSE 0)

\* the first loop of parsePVMFile: texture i (from 0) as read at its record
textureEntry(bytes, textureFlags, i) ==
  LET offset == 12 + i * metadataSize(textureFlags)
      named == BitAnd(textureFlags, 8) # 0
  IN [id |-> fileUint16(bytes, offset),
      index |-> i,
      name |-> IF named
               THEN SelectSeq(SubSeq(bytes, offset + 3, offset + 30),
                              LAMBDA charCode : charCode # 0)
               ELSE << >>]

\* The marker search of parsePVMFile: the positions from offset on, below
\* byteLength - 4 and at most attempts of them, are examined in order; the
\* first that holds "PVRT" is the result, Undefined when none does.
findPVRT(bytes, offset, attempts) ==
  LET last == Min(Len(bytes) - 5, offset + attempts - 1)
      hits == { o \in offset .. last : MagicAt(bytes, o) = PVRT }
  IN IF hits = {} THEN Undefined
     ELSE CHOOSE o \in hits : \A h \in hits : o <= h

\* The second loop of parsePVMFile from texture i on, the cursor at offset:
\* the byte ranges of the textures, or the error thrown.
RECURSIVE extractTextures(_, _, _, _, _)
extractTextures(bytes, offset, i, textureCount, attempts) ==
  IF i >= textureCount THEN [err |-> NoError, ranges |-> << >>]
  ELSE LET textureStart == findPVRT(bytes, offset, attempts)
       IN IF textureStart = Undefined THEN [err |-> ErrNoPvrt, ranges |-> << >>]
          ELSE IF ~InFile(bytes, textureStart + 4, 4)
          THEN [err |-> ErrRange, ranges |-> << >>]
          ELSE LET pvrDataSize == fileUint32(bytes, textureStart + 4)
                   totalSize == 8 + pvrDataSize
                   rest == extractTextures(bytes, textureStart + totalSize,
                                           i + 1, textureCount, attempts)
               IN IF rest.err # NoError THEN rest
                  ELSE [err |-> NoError,
                        ranges |-> << Slice(bytes, textureStart,
                                            textureStart + totalSize) >>
                                   \o rest.ranges]

\* parsePVMFile(arrayBuffer) up to the list of textures with their data;
\* the decode of every texture that follows cannot fail the call.  attempts
\* is maxAttempts in PVRImage.tsx; PVMViewer.tsx has no such limit, which is
\* a limit no search reaches.
parsePVMFile(bytes, attempts) ==
  IF ~InFile(bytes, 0, 4) THEN Archive(ErrRange, << >>)
  ELSE IF MagicAt(bytes, 0) # PVMH THEN Archive(ErrSignature, << >>)
  ELSE IF ~InFile(bytes, 4, 8) THEN Archive(ErrRange, << >>)
  ELSE LET dataSize == fileUint32(bytes, 4)
           textureFlags == fileUint16(bytes, 8)
           textureCount == fileUint16(bytes, 10)
       IN IF textureCount > 0
             /\ ~InFile(bytes, 12, textureCount * metadataSize(textureFlags))
          THEN Archive(ErrRange, << >>)
          ELSE LET found == extractTextures(bytes, 8 + dataSize, 0,
                                            textureCount, attempts)
               IN IF found.err # NoError THEN Archive(found.err, << >>)
                  ELSE Archive(NoError,
                         [k \in 1 .. textureCount |->
                            [id |-> textureEntry(bytes, textureFlags, k - 1).id,
                             name |-> textureEntry(bytes, textureFlags, k - 1).name,
                             first |-> found.ranges[k].first,
                             final |-> found.ranges[k].final]])

\* the name loop of parsePvm: the characters before the first NUL of the
\* 28-byte field
directoryName(bytes, offset) ==
  LET field == SubSeq(bytes, offset + 1, offset + 28)
      nuls == { j \in 1 .. 28 : field[j] = 0 }
      length == IF nuls = {} THEN 28
                ELSE (CHOOSE j \in nuls : \A n \in nuls : j <= n) - 1
  IN SubSeq(field, 1, length)

\* parsePvm(buffer) of unnamed/part_005: entry i (from 0) is the 36-byte
\* directory record at 16 + 36 * i; a record that does not lie in the file
\* ends the call with the RangeError of the read.
parsePvm(bytes) ==
  IF ~InFile(bytes, 0, 4) THEN Archive(ErrRange, << >>)
  ELSE IF MagicAt(bytes, 0) # PVMH THEN Archive(ErrNoPvmh, << >>)
  ELSE IF ~InFile(bytes, 8, 4) THEN Archive(ErrRange, << >>)
  ELSE LET numTextures == fileUint32(bytes, 8)
       IN IF numTextures > 0 /\ ~InFile(bytes, 16, 36 * numTextures)
          THEN Archive(ErrRange, << >>)
          ELSE Archive(NoError,
                 [k \in 1 .. numTextures |->
                    LET offset == 16 + 36 * (k - 1)
                        dataOffset == fileUint32(bytes, offset + 28)
                        dataSize == fileUint32(bytes, offset + 32)
                        textureData == Slice(bytes, dataOffset, dataOffset + dataSize)
                    IN [id |-> Undefined,
                        name |-> directoryName(bytes, offset),
                        first |-> textureData.first,
                        final |-> textureData.final]])

(***************************************************************************)
(* Ninja models (src/lib/njParse.ts).  The NJCM section is its bone        *)
(* records and sub-mesh headers, each found at its offset, and the bytes   *)
(* of its section, in which the chunk streams lie; stream[p + 1] is the     *)
(* byte at offset p.  A 32-bit float is held as its bit pattern, a color   *)
(* component and a skin weight as the numerator over 255, a UV coordinate  *)
(* as << numerator, denominator >>.  A read past the end of the section    *)
(* throws, as a DataView read does.                                        *)
(***************************************************************************)
ErrVolume == "Volume chunk not implemented"
ErrVertex == "Vertex not found in vertex list"
ErrStack == "RangeError: Maximum call stack size exceeded"

\* a skipped tag after which the reader is moved back by the two bytes
\* when it is not at a multiple of 4
skipTagBack(at) == IF at % 4 = 0 THEN at + 2 ELSE at - 2
\* the reader after the two bytes of a tag at address at
skipTag(at) == at + 2

\* an end of readChunk that leaves the last offset on the memory stack
pendingSeveral(memStack) == Len(memStack) > 1
\* readChunk after its loop: an offset is on the memory stack
pending(memStack) == memStack # << >>

\* The chunk heads of readChunk
NJD_NULLOFF == 0
NJD_BITSOFF == 1
NJD_TINYOFF == 8
NJD_MATOFF == 16
NJD_VERTOFF == 32
NJD_VOLOFF == 56
NJD_STRIPOFF == 64
NJD_ENDOFF == 255

\* The bytes of a bone record: flags, chunkOfs, pos, rot, scl, childOfs,
\* siblingOfs
BoneRecordSize == 52

InStream(stream, pos, n) == pos >= 0 /\ pos + n <= Len(stream)

readUInt8(stream, pos) == stream[pos + 1]
readUInt32(stream, pos) ==
  stream[pos + 1] + 256 * stream[pos + 2] + 65536 * stream[pos + 3]
  + 16777216 * stream[pos + 4]
readUInt16(stream, pos) == stream[pos + 1] + 256 * stream[pos + 2]
readInt16(stream, pos) ==
  LET v == readUInt16(stream, pos) IN IF v >= 32768 THEN v - 65536 ELSE v
readFloat(stream, pos) ==
  readUInt16(stream, pos) + 65536 * readUInt16(stream, pos + 2)

readVector3(stream, pos) ==
  << readFloat(stream, pos), readFloat(stream, pos + 4), readFloat(stream, pos + 8) >>

\* readColor: the bytes are b, g, r, a
readColor(stream, pos) ==
  [r |-> readUInt8(stream, pos + 2), g |-> readUInt8(stream, pos + 1),
   b |-> readUInt8(stream, pos), a |-> readUInt8(stream, pos + 3)]

isBitFlagSet(value, bit) == (value \div Pow2(bit)) % 2 = 1

getBitMask(value, bits) ==
  LET RECURSIVE from(_)
      from(i) ==
        IF i > Len(bits) THEN 0
        ELSE (IF isBitFlagSet(value, bits[i]) THEN Pow2(i - 1) ELSE 0) + from(i + 1)
  IN from(1)

\* { r: 1, g: 1, b: 1, a: 1 }
White == [r |-> 255, g |-> 255, b |-> 255, a |-> 255]

\* The material a NinjaModel is constructed with, and the one readChunk
\* starts every chunk stream with
constructedMaterial ==
  [texId |-> -1, blending |-> FALSE, doubleSide |-> FALSE,
   diffuseColor |-> White, specularColor |-> << >>, ambientColor |-> << >>]
resetMaterial ==
  [texId |-> -1, blending |-> FALSE, doubleSide |-> FALSE,
   diffuseColor |-> << >>, specularColor |-> << >>, ambientColor |-> << >>]

\* position.applyMatrix4(matrixWorld), normal.applyMatrix3(normalMatrix):
\* the vector together with the matrix that is applied to it
applyMatrix(vector, matrixWorld) == [v |-> vector, m |-> matrixWorld]

\* VertexList.getVertex(index): << >> is null
getVertex(vertexList, index) ==
  IF index < 0 \/ index >= Len(vertexList) THEN << >> ELSE vertexList[index + 1]

\* VertexList.addVertex(vertex, index)
addVertex(vertexList, vertex, index) ==
  [k \in 1 .. Max(Len(vertexList), index + 1) |->
     IF k = index + 1 THEN vertex
     ELSE IF k <= Len(vertexList) THEN vertexList[k] ELSE << >>]

\* VertexList.setUV(index, u, v)
setUV(vertexList, index, u, v) ==
  IF index >= 0 /\ index < Len(vertexList) /\ vertexList[index + 1] # << >>
  THEN [vertexList EXCEPT ![index + 1] =
          [vertexList[index + 1] EXCEPT !.uv = [x |-> u, y |-> v]]]
  ELSE vertexList

\* NinjaModel.colorsEqual: |c1 - c2| / 255 < 0.00001 for every component
colorsEqual(color1, color2) ==
  LET near(a, b) == (IF a < b THEN b - a ELSE a - b) * 100000 < 255
  IN IF color1 = << >> /\ color2 = << >> THEN TRUE
     ELSE IF color1 = << >> \/ color2 = << >> THEN FALSE
     ELSE /\ near(color1.r, color2.r)
          /\ near(color1.g, color2.g)
          /\ near(color1.b, color2.b)
          /\ near(color1.a, color2.a)

\* the test of getMaterialIndex on one entry of the list
sameMaterial(mat, currentMaterial) ==
  /\ mat.texId = currentMaterial.texId
  /\ mat.blending = currentMaterial.blending
  /\ mat.doubleSide = currentMaterial.doubleSide
  /\ colorsEqual(mat.diffuseColor, currentMaterial.diffuseColor)
  /\ colorsEqual(mat.specularColor, currentMaterial.specularColor)
  /\ colorsEqual(mat.ambientColor, currentMaterial.ambientColor)

\* A material index that is always the index of a new entry
getMaterialIndexAppending(materials, currentMaterial) ==
  [index |-> Len(materials), materials |-> Append(materials, currentMaterial)]

\* NinjaModel.getMaterialIndex: the index (from 0) and the list after it
getMaterialIndex(materials, currentMaterial) ==
  LET found == { i \in 1 .. Len(materials) : sameMaterial(materials[i], currentMaterial) }
  IN IF found # {}
     THEN [index |-> (CHOOSE i \in found : \A j \in found : i <= j) - 1,
           materials |-> materials]
     ELSE [index |-> Len(materials),
           materials |-> Append(materials, currentMaterial)]

\* readBitsChunk, head 1, and readMaterialChunk: the blending of the flag
blendingOf(flag) ==
  getBitMask(flag, << 3, 4, 5 >>) = 4 /\ getBitMask(flag, << 0, 1, 2 >>) = 1

\* readMaterialChunk: the chunk's tag is at pos.  The result is the current
\* material and color after it and the cursor.
readMaterialChunk(stream, pos, currentMaterial, currentColor) ==
  LET head == readUInt8(stream, pos)
      flag == readUInt8(stream, pos + 1)
      hasDiffuse == isBitFlagSet(head, 0)
      hasSpecular == isBitFlagSet(head, 1)
      hasAmbient == isBitFlagSet(head, 2)
      diffuseAt == pos + 4
      specularAt == diffuseAt + (IF hasDiffuse THEN 4 ELSE 0)
      ambientAt == specularAt + (IF hasSpecular THEN 4 ELSE 0)
      end == ambientAt + (IF hasAmbient THEN 4 ELSE 0)
  IN IF ~InStream(stream, pos, end - pos)
     THEN [err |-> ErrRange, currentMaterial |-> currentMaterial,
           currentColor |-> currentColor, cursor |-> pos]
     ELSE [err |-> NoError,
           currentMaterial |->
             [currentMaterial EXCEPT
                !.blending = blendingOf(flag),
                !.diffuseColor = IF hasDiffuse THEN readColor(stream, diffuseAt) ELSE @,
                !.specularColor = IF hasSpecular THEN readColor(stream, specularAt) ELSE @,
                !.ambientColor = IF hasAmbient THEN readColor(stream, ambientAt) ELSE @],
           currentColor |-> IF hasDiffuse THEN readColor(stream, diffuseAt) ELSE currentColor,
           cursor |-> end]

\* The bytes of one vertex of a vertex chunk
vertexSize(head) ==
  12 + (IF head > 40 /\ head < 48 THEN 12 ELSE 0)
     + (IF head = 35 \/ head = 42 THEN 4 ELSE 0)
     + (IF head = 44 THEN 4 ELSE 0)

\* One pass of the loop of readVertexChunk: the vertex read at address at
\* for slot stackIndex, the list being vertexList before it is added
readVertex(stream, at, head, flag, indexOffset, stackIndex, vertexList, boneCount, matrixWorld) ==
  LET hasNormal == head > 40 /\ head < 48
      hasColor == head = 35 \/ head = 42
      normalAt == at + 12
      colorAt == normalAt + (IF hasNormal THEN 12 ELSE 0)
      weightAt == colorAt + (IF hasColor THEN 4 ELSE 0)
      offset == readUInt16(stream, weightAt)
      weight == readUInt16(stream, weightAt + 2)
      prev == getVertex(vertexList, indexOffset + offset)
      kept == IF prev # << >>
              THEN [skinIndices |-> << prev.skinIndices[1], prev.skinIndices[2],
                                       prev.skinIndices[3], 0 >>,
                    skinWeights |-> << prev.skinWeights[1], prev.skinWeights[2],
                                       prev.skinWeights[3], 0 >>]
              ELSE [skinIndices |-> << 0, 0, 0, 0 >>, skinWeights |-> << 0, 0, 0, 0 >>]
      slot == flag - 127
      skin == IF head # 44
              THEN [skinIndices |-> << boneCount - 1, 0, 0, 0 >>,
                    skinWeights |-> << 255, 0, 0, 0 >>]
              ELSE IF flag \in {128, 129, 130}
              THEN [skinIndices |-> [kept.skinIndices EXCEPT ![slot] = boneCount - 1],
                    skinWeights |-> [kept.skinWeights EXCEPT ![slot] = weight]]
              ELSE kept
  IN [position |-> applyMatrix(readVector3(stream, at), matrixWorld),
      normal |-> IF hasNormal
                 THEN applyMatrix(readVector3(stream, normalAt), matrixWorld)
                 ELSE << >>,
      color |-> IF hasColor THEN readColor(stream, colorAt) ELSE << >>,
      uv |-> << >>,
      skinIndices |-> skin.skinIndices,
      skinWeights |-> skin.skinWeights,
      globalIndex |-> stackIndex]

\* The loop of readVertexChunk from vertex i on
RECURSIVE readVertices(_, _, _, _, _, _, _, _, _, _)
readVertices(stream, at, head, flag, indexOffset, i, vertexCount, vertexList, boneCount, matrixWorld) ==
  IF i >= vertexCount THEN [err |-> NoError, vertexList |-> vertexList, cursor |-> at]
  ELSE IF ~InStream(stream, at, vertexSize(head))
  THEN [err |-> ErrRange, vertexList |-> vertexList, cursor |-> at]
  ELSE readVertices(stream, at + vertexSize(head), head, flag, indexOffset, i + 1,
                    vertexCount,
                    addVertex(vertexList,
                              readVertex(stream, at, head, flag, indexOffset,
                                         indexOffset + i, vertexList, boneCount,
                                         matrixWorld),
                              indexOffset + i),
                    boneCount, matrixWorld)

\* readVertexChunk: the chunk's tag is at pos
readVertexChunk(stream, pos, vertexList, boneCount, matrixWorld) ==
  IF ~InStream(stream, pos, 8)
  THEN [err |-> ErrRange, vertexList |-> vertexList, cursor |-> pos]
  ELSE readVertices(stream, pos + 8, readUInt8(stream, pos), readUInt8(stream, pos + 1),
                    readUInt16(stream, pos + 4), 0, readUInt16(stream, pos + 6),
                    vertexList, boneCount, matrixWorld)

\* The bytes of one vertex reference of a strip: the index, and u and v
\* for the heads 0x41 and 0x42
referenceSize(head) == IF head = 65 \/ head = 66 THEN 6 ELSE 2

\* u and v of a strip vertex read at address at
readUV(stream, at, head, flipV) ==
  LET den == IF head = 65 THEN 255 ELSE 1023
      u == readInt16(stream, at)
      v == readInt16(stream, at + 2)
  IN [x |-> << u, den >>, y |-> IF flipV THEN << v, den >> ELSE << den - v, den >>]

\* The vertex loop of a strip reader that leaves out a reference to a slot
\* that holds no vertex
RECURSIVE readReferencesLenient(_, _, _, _, _, _, _)
readReferencesLenient(stream, at, head, flipV, vertIdx, stripLength, vertexList) ==
  IF vertIdx >= stripLength
  THEN [err |-> NoError, strip |-> << >>, vertexList |-> vertexList, cursor |-> at]
  ELSE IF ~InStream(stream, at, referenceSize(head))
  THEN [err |-> ErrRange, strip |-> << >>, vertexList |-> vertexList, cursor |-> at]
  ELSE LET stackIndex == readUInt16(stream, at)
           rest == readReferencesLenient(stream, at + referenceSize(head), head, flipV,
                                         vertIdx + 1, stripLength, vertexList)
       IN IF getVertex(vertexList, stackIndex) = << >> THEN rest
          ELSE [rest EXCEPT !.strip = << stackIndex >> \o @]

\* The vertex loop of readStripChunk from vertex vertIdx on: the stack
\* indices read, in order, the list after the setUV calls, and the cursor
RECURSIVE readReferences(_, _, _, _, _, _, _)
readReferences(stream, at, head, flipV, vertIdx, stripLength, vertexList) ==
  IF vertIdx >= stripLength
  THEN [err |-> NoError, strip |-> << >>, vertexList |-> vertexList, cursor |-> at]
  ELSE IF ~InStream(stream, at, referenceSize(head))
  THEN [err |-> ErrRange, strip |-> << >>, vertexList |-> vertexList, cursor |-> at]
  ELSE LET stackIndex == readUInt16(stream, at)
       IN IF getVertex(vertexList, stackIndex) = << >>
          THEN [err |-> ErrVertex, strip |-> << >>, vertexList |-> vertexList, cursor |-> at]
          ELSE LET uv == readUV(stream, at + 2, head, flipV)
                   rest == readReferences(stream, at + referenceSize(head), head, flipV,
                                          vertIdx + 1, stripLength,
                                          IF head = 65 \/ head = 66
                                          THEN setUV(vertexList, stackIndex, uv.x, uv.y)
                                          ELSE vertexList)
               IN [rest EXCEPT !.strip = << stackIndex >> \o @]

\* The globalIndex values of triangle i (from 0) of a strip
stripTriangleSwapped(strip, clockwise, i) ==
  IF (clockwise /\ i % 2 # 0) \/ (~clockwise /\ i % 2 = 0)
  THEN << strip[i + 1], strip[i + 3], strip[i + 2] >>
  ELSE << strip[i + 1], strip[i + 2], strip[i + 3] >>

stripTriangle(strip, clockwise, i) ==
  IF (clockwise /\ i % 2 = 0) \/ (~clockwise /\ i % 2 # 0)
  THEN << strip[i + 1], strip[i + 3], strip[i + 2] >>
  ELSE << strip[i + 1], strip[i + 2], strip[i + 3] >>

\* the lowest alpha a vertex color is emitted with: 0.3, as a numerator
\* over 2550
minAlpha == 765

\* VertexList.getTriangleData(indices): what the vertices of the indices
\* that the list holds contribute to the arrays.  A color is emitted with
\* its components as numerators over 2550.
getTriangleData(vertexList, indices) ==
  LET held == SelectSeq(indices, LAMBDA idx : getVertex(vertexList, idx) # << >>)
      vertexOf(k) == getVertex(vertexList, held[k])
      all == [k \in 1 .. Len(held) |-> vertexOf(k)]
      emitted(color) ==
        << 10 * color.r, 10 * color.g, 10 * color.b,
           IF 10 * color.a < minAlpha THEN minAlpha ELSE 10 * color.a >>
  IN [positions |-> [k \in 1 .. Len(all) |-> all[k].position],
      normals |-> LET with == SelectSeq(all, LAMBDA vertex : vertex.normal # << >>)
                  IN [k \in 1 .. Len(with) |-> with[k].normal],
      colors |-> LET with == SelectSeq(all, LAMBDA vertex : vertex.color # << >>)
                 IN [k \in 1 .. Len(with) |-> emitted(with[k].color)],
      uvs |-> [k \in 1 .. Len(all) |->
                 IF all[k].uv # << >> THEN all[k].uv
                 ELSE [x |-> << 0, 1 >>, y |-> << 0, 1 >>]],
      skinIndices |-> [k \in 1 .. Len(all) |-> all[k].skinIndices],
      skinWeights |-> [k \in 1 .. Len(all) |-> all[k].skinWeights]]

\* The arrays of a NinjaModel that the strips fill
noArrays ==
  [vertices |-> << >>, normals |-> << >>, colors |-> << >>, uvs |-> << >>,
   skinIndices |-> << >>, skinWeights |-> << >>, materialIndices |-> << >>]

\* The triangle loop of readStripChunk from triangle i on
RECURSIVE pushTriangles(_, _, _, _, _, _)
pushTriangles(strip, clockwise, i, materialIndex, vertexList, arrays) ==
  IF i >= Len(strip) - 2 THEN arrays
  ELSE LET triangleData == getTriangleData(vertexList, stripTriangle(strip, clockwise, i))
       IN pushTriangles(strip, clockwise, i + 1, materialIndex, vertexList,
            [vertices |-> arrays.vertices \o triangleData.positions,
             normals |-> arrays.normals \o triangleData.normals,
             colors |-> arrays.colors \o triangleData.colors,
             uvs |-> arrays.uvs \o triangleData.uvs,
             skinIndices |->
               IF triangleData.skinIndices # << >> /\ triangleData.skinWeights # << >>
               THEN arrays.skinIndices \o triangleData.skinIndices
               ELSE arrays.skinIndices,
             skinWeights |->
               IF triangleData.skinIndices # << >> /\ triangleData.skinWeights # << >>
               THEN arrays.skinWeights \o triangleData.skinWeights
               ELSE arrays.skinWeights,
             materialIndices |-> Append(arrays.materialIndices, materialIndex)])

\* The strip loop of readStripChunk from strip stripIdx on, the cursor at
\* address at
RECURSIVE readStrips(_, _, _, _, _, _, _, _, _)
readStrips(stream, at, head, flipV, stripIdx, stripCount, materialIndex, vertexList, arrays) ==
  IF stripIdx >= stripCount
  THEN [err |-> NoError, vertexList |-> vertexList, arrays |-> arrays]
  ELSE IF ~InStream(stream, at, 2)
  THEN [err |-> ErrRange, vertexList |-> vertexList, arrays |-> arrays]
  ELSE LET rawLength == readInt16(stream, at)
           clockwise == rawLength < 0
           stripLength == IF rawLength < 0 THEN -rawLength ELSE rawLength
           read == readReferences(stream, at + 2, head, flipV, 0, stripLength, vertexList)
       IN IF read.err # NoError
          THEN [err |-> read.err, vertexList |-> vertexList, arrays |-> arrays]
          ELSE readStrips(stream, read.cursor, head, flipV, stripIdx + 1, stripCount,
                          materialIndex, read.vertexList,
                          pushTriangles(read.strip, clockwise, 0, materialIndex,
                                        read.vertexList, arrays))

\* readStripChunk: the chunk's tag is at pos
readStripChunk(stream, pos, flipV, currentMaterial, materials, vertexList, arrays) ==
  IF ~InStream(stream, pos, 6)
  THEN [err |-> ErrRange, currentMaterial |-> currentMaterial, materials |-> materials,
        vertexList |-> vertexList, arrays |-> arrays, cursor |-> pos]
  ELSE LET head == readUInt8(stream, pos)
           flag == readUInt8(stream, pos + 1)
           length == readUInt16(stream, pos + 2)
           expectedEnd == pos + 4 + length * 2
           stripCount == readUInt16(stream, pos + 4) % 16384
           material == [currentMaterial EXCEPT !.doubleSide = isBitFlagSet(flag, 4)]
           index == getMaterialIndex(materials, material)
           read == readStrips(stream, pos + 6, head, flipV, 0, stripCount,
                              index.index, vertexList, arrays)
       IN [err |-> read.err, currentMaterial |-> material, materials |-> index.materials,
           vertexList |-> read.vertexList, arrays |-> read.arrays, cursor |-> expectedEnd]

\* NinjaModel.getGeometry: an attribute is set when its array is not empty;
\* a group per triangle of the position array, tagged materialIndices[i] || 0
getGeometry(arrays) ==
  [position |-> arrays.vertices,
   normal |-> arrays.normals,
   color |-> arrays.colors,
   uv |-> arrays.uvs,
   skinIndex |-> IF arrays.skinIndices # << >> /\ arrays.skinWeights # << >>
                 THEN arrays.skinIndices ELSE << >>,
   skinWeight |-> IF arrays.skinIndices # << >> /\ arrays.skinWeights # << >>
                  THEN arrays.skinWeights ELSE << >>,
   groups |-> [i \in 1 .. (Len(arrays.vertices) \div 3) |->
                 [start |-> 3 * (i - 1), count |-> 3,
                  materialIndex |-> IF i <= Len(arrays.materialIndices)
                                    THEN arrays.materialIndices[i] ELSE 0]]]

(***************************************************************************)
(* The state: one decode call, of a texture, of an archive or of a model.   *)
(***************************************************************************)
VARIABLES
  pc,          \* "ready", then "returned" (promise fulfilled) or "thrown"
  rev,         \* the revision of the decoder that is called
  buffer,      \* the ArrayBuffer passed to parsePvr
  pvp,         \* the parsed palette file, NoPvp when there is none
  error,       \* the message of the error thrown, NoError otherwise
  header,      \* the header returned, << >> when nothing was returned
  imageData,   \* imageData.data as returned, << >> when nothing was returned
  ran,         \* the pixel-layout decoder that was called
  clutSize,    \* the codebook entries a VQ decoder read
  bodyData,    \* the palette indices a palette decoder extracted
  placed,      \* list position -> ordinal of the stored value (readTwiddled)
  lookUpTable, \* the detwiddling table a palette decoder of the library built
  writes,      \* the number of stores to every byte of imageData.data
  pvmPc,       \* an archive call: "ready", then "returned" or "thrown"
  pvmRev,      \* the archive decoder that is called
  pvmFile,     \* the bytes of the archive
  pvmError,    \* the message of the error the archive call threw
  entries,     \* the textures returned: id, name, byte range [first, final)
  njPc,        \* a model call: "sections", "model", then "returned" or "thrown"
  njFile,      \* the sections of the model file
  section,     \* the section parseNinjaModel reads next
  result,      \* the result of parseNinjaModel, << >> when it threw
  njError,     \* the message of the error the model call threw
  bones,       \* NinjaModel.bones, in the order they were created
  stack,       \* the calls of readBone and readChunk entered or pending
  cursor,      \* the position of the reader in the NJCM chunk
  memStack,    \* NinjaModel.memStack
  currentBone, \* the index of NinjaModel.currentBone in bones
  currentMaterial,
  currentColor,
  flipV,
  materials,   \* NinjaModel.materials
  vertexList,  \* NinjaModel.vertexList: slot -> vertex, << >> where none
  arrays,      \* vertices, normals, colors, uvs, skinIndices, skinWeights,
               \* materialIndices: one entry per triangle corner or triangle
  mortonLookupTable, \* the memo table of untwiddle: key -> morton index
  decoding,    \* the decodeTwiddled calls of the component that are under way
  props,       \* the assetPath and palettePath PVRImage was rendered with last
  loads,       \* the loadAndDrawTexture calls started, in the order of start
  screen       \* the canvas and the state of PVRImage: header, error, loading

pvrVars == << pc, rev, buffer, pvp, error, header, imageData, ran, clutSize,
              bodyData, placed, lookUpTable, writes >>

pvmVars == << pvmPc, pvmRev, pvmFile, pvmError, entries >>

njVars == << njPc, njFile, section, result, njError, bones, stack, cursor, memStack,
             currentBone, currentMaterial, currentColor, flipV, materials, vertexList,
             arrays >>

memoVars == << mortonLookupTable, decoding >>

uiVars == << props, loads, screen >>

vars == << pvrVars, pvmVars, njVars, memoVars, uiVars >>

\* no decodeTwiddled of the component in this run
MemoIdle ==
  /\ mortonLookupTable = << >>
  /\ decoding = << >>

\* no PVRImage in this run
UiIdle ==
  /\ props = << >>
  /\ loads = << >>
  /\ screen = << >>

NoPvp == [present |-> FALSE, format |-> Undefined, palette |-> << >>, entryCount |-> 0]

\* no archive call in this run
PvmIdle ==
  /\ pvmPc = "idle"
  /\ pvmRev = "none"
  /\ pvmFile = << >>
  /\ pvmError = NoError
  /\ entries = << >>

\* no model call in this run
NjIdle ==
  /\ njPc = "idle"
  /\ njFile = << >>
  /\ section = 0
  /\ result = << >>
  /\ njError = NoError
  /\ bones = << >>
  /\ stack = << >>
  /\ cursor = 0
  /\ memStack = << >>
  /\ currentBone = Undefined
  /\ currentMaterial = << >>
  /\ currentColor = << >>
  /\ flipV = FALSE
  /\ materials = << >>
  /\ vertexList = << >>
  /\ arrays = << >>

\* no texture call in this run
PvrIdle ==
  /\ pc = "idle"
  /\ rev = "none"
  /\ buffer = << >>
  /\ pvp = NoPvp
  /\ error = NoError
  /\ header = << >>
  /\ imageData = << >>
  /\ ran = "none"
  /\ clutSize = 0
  /\ bodyData = << >>
  /\ placed = << >>
  /\ lookUpTable = << >>
  /\ writes = << >>


\* palette?.palette of loadAndDrawTexture: the colors alone
PaletteArgument(p) == [present |-> p.present, palette |-> p.palette]

\* The end of a call: the promise is fulfilled with {header, imageData},
\* or rejected with the error and nothing else.
Finish(res) ==
  /\ pc' = IF res.err = NoError THEN "returned" ELSE "thrown"
  /\ error' = res.err
  /\ header' = IF res.err = NoError THEN res.header ELSE << >>
  /\ imageData' = IF res.err = NoError THEN res.out.data ELSE << >>
  /\ ran' = res.ran
  /\ clutSize' = res.out.clutSize
  /\ bodyData' = IF res.err = NoError THEN res.out.bodyData ELSE << >>
  /\ placed' = res.out.placed
  /\ lookUpTable' = res.out.lookUpTable
  /\ writes' = IF res.err = NoError THEN res.out.writes ELSE << >>
  /\ UNCHANGED << rev, buffer, pvp >>
  /\ UNCHANGED << pvmVars, njVars, memoVars, uiVars >>

(***************************************************************************)
(* The inputs of a call.                                                   *)
(***************************************************************************)
Revisions == {"lib", "part_005", "component"}

\* 0x7f stands for the layout codes no revision knows
UnknownLayouts == {127}

DataFormats ==
  {TWIDDLED, TWIDDLED_MM, VQ, VQ_MM, PALETTIZE4, PALETTIZE4_MM, PALETTIZE8,
   PALETTIZE8_MM, RECTANGLE, STRIDE, TWIDDLED_RECTANGLE, SMALL_VQ, SMALL_VQ_MM,
   TWIDDLED_MM_ALT} \cup UnknownLayouts

VqFormats == {VQ, VQ_MM, SMALL_VQ, SMALL_VQ_MM}
PaletteFormats == {PALETTIZE4, PALETTIZE4_MM, PALETTIZE8, PALETTIZE8_MM}

ColorFormats == {ARGB1555, RGB565, ARGB4444, YUV422, BUMP, RGB555, ARGB8888}

Seeds == {"ramp", "ones", "mix"}

\* The widths the small-VQ codebook lookup distinguishes
VqWidths == {8, 16, 32, 64}

MipmapFormats ==
  {TWIDDLED_MM, VQ_MM, PALETTIZE4_MM, PALETTIZE8_MM, SMALL_VQ_MM, TWIDDLED_MM_ALT}

\* Payload lengths in bytes for a width x height texture: none, and the
\* exact length of its pixels (16-bit values, or 4-bit and 8-bit indices);
\* for the mipmapped layouts also 64, which holds the smaller levels before
\* the base level; for the VQ layouts none, too short for the codebook, and
\* enough for a 256-entry codebook
PayloadLengths(dataFormat, width, height) ==
  IF dataFormat \in VqFormats THEN {0, 16, 2600}
  ELSE (IF dataFormat \in PaletteFormats
        THEN {0, (width * height + 1) \div 2, width * height}
        ELSE {0, 2 * width * height})
       \cup (IF dataFormat \in MipmapFormats THEN {64} ELSE {})

MakeBuffer(gbixSize, magic, colorFormat, dataFormat, width, height, seed, byteLength) ==
  [gbixSize |-> gbixSize, globalIndex |-> 5, magic |-> magic,
   colorFormat |-> colorFormat, dataFormat |-> dataFormat,
   width |-> width, height |-> height, seed |-> seed, byteLength |-> byteLength]

\* small textures of every layout, color format and size
SmallBuffers(seeds) ==
  UNION { { MakeBuffer(Undefined, "PVRT", c, d, w, h, s, n) :
              c \in ColorFormats, s \in seeds, n \in PayloadLengths(d, w, h) } :
          d \in DataFormats, w \in 1 .. MaxDim, h \in 1 .. MaxDim }

\* square VQ textures of the widths the codebook lookup distinguishes
VqBuffers ==
  { MakeBuffer(Undefined, "PVRT", RGB565, d, w, w, "ramp", 2600) :
      d \in {SMALL_VQ, SMALL_VQ_MM}, w \in VqWidths }
  \cup { MakeBuffer(Undefined, "PVRT", c, d, 8, 8, "ramp", 2600) :
           c \in {RGB565, ARGB4444}, d \in {VQ, VQ_MM} }

\* a GBIX section before the PVRT header, and a wrong magic
FramedBuffers ==
  { MakeBuffer(g, m, RGB565, d, 2, 2, "ramp", 8) :
      g \in {Undefined, 0, 4}, m \in {"PVRT", "PVRX"}, d \in DataFormats }

Buffers == SmallBuffers(Seeds) \cup VqBuffers \cup FramedBuffers

\* A parsed palette file of n entries in the given format: entry k is the
\* 16-bit value with all four nibbles equal to k % 16
MakePvp(format, n) ==
  [present |-> TRUE, format |-> format,
   palette |-> [k \in 1 .. n |-> ((k - 1) % 16) * 4369], entryCount |-> n]

Pvps == {NoPvp, MakePvp(ARGB4444, 16), MakePvp(RGB565, 4)}

\* The calls: the library revision with every buffer, and with a palette
\* file for the palettized layouts; the two other revisions, which no
\* caller gives a palette, with the buffers of one byte pattern.
Calls ==
  { << "lib", b, NoPvp >> : b \in Buffers }
  \cup { << "lib", b, p >> :
           b \in {sb \in SmallBuffers(Seeds) : sb.dataFormat \in PaletteFormats},
           p \in Pvps }
  \cup { << r, b, NoPvp >> :
           r \in {"part_005", "component"},
           b \in SmallBuffers({"ramp"}) \cup VqBuffers \cup FramedBuffers }

TypeOK ==
  /\ pc \in {"ready", "returned", "thrown"}
  /\ rev \in Revisions
  /\ buffer \in Buffers
  /\ pvp \in Pvps

Init ==
  /\ pc = "ready"
  /\ \E call \in Calls :
        /\ rev = call[1]
        /\ buffer = call[2]
        /\ pvp = call[3]
  /\ error = NoError
  /\ header = << >>
  /\ imageData = << >>
  /\ ran = "none"
  /\ clutSize = 0
  /\ bodyData = << >>
  /\ placed = << >>
  /\ lookUpTable = << >>
  /\ writes = << >>
  /\ PvmIdle
  /\ NjIdle
  /\ MemoIdle
  /\ UiIdle

\* src/lib/parsePvr.ts, called as PVRImage.tsx calls it
ParsePvr ==
  /\ pc = "ready"
  /\ rev = "lib"
  /\ Finish(parsePvr(buffer, PaletteArgument(pvp)))

\* src/unnamed/part_005, called without a palette as its callers do
ParsePvr005 ==
  /\ pc = "ready"
  /\ rev = "part_005"
  /\ Finish(parsePvr005(buffer, NoPalette))

\* src/unnamed/part_001: loadPvrTexture's call of the component's parsePvr
PVRImageParsePvr ==
  /\ pc = "ready"
  /\ rev = "component"
  /\ Finish(PVRImage_parsePvr(buffer))

Next == ParsePvr \/ ParsePvr005 \/ PVRImageParsePvr

Spec == Init /\ [][Next]_vars

(***************************************************************************)
(* Archive decoding: the inputs, the state and the calls.                  *)
(***************************************************************************)
Zeros(n) == [k \in 1 .. n |-> 0]
Bytes16(v) == << v % 256, v \div 256 >>
Bytes32(v) == Bytes16(v % 65536) \o Bytes16(v \div 65536)

RECURSIVE Concat(_)
Concat(parts) ==
  IF parts = << >> THEN << >> ELSE Head(parts) \o Concat(Tail(parts))

\* A texture as it lies in an archive: the marker, the size the texture
\* declares and the bytes of it that are present
Texture(declared, present) ==
  PVRT \o Bytes32(declared) \o [k \in 1 .. present |-> 1 + (k % 7)]

\* The 28-byte name field of texture i: "T0", "T1", ...
FieldName(i) == << 84, 48 + i >> \o Zeros(26)

\* n whole textures of 8 bytes each, gap zero bytes before each
Body(gap, n) == Concat([k \in 1 .. n |-> Zeros(gap) \o Texture(8, 8)])

\* The metadata record of texture i in the layout with a flags word
Metadata(textureFlags, i) ==
  Bytes16(i)
  \o (IF BitAnd(textureFlags, 8) # 0 THEN FieldName(i) ELSE << >>)
  \o (IF BitAnd(textureFlags, 4) # 0 THEN Bytes16(1) ELSE << >>)
  \o (IF BitAnd(textureFlags, 2) # 0 THEN Bytes16(2) ELSE << >>)
  \o (IF BitAnd(textureFlags, 1) # 0 THEN Bytes32(i) ELSE << >>)

\* PVMH, the size of the rest of the header, the flags, the count, the
\* metadata records, and then whatever follows them
FormatA(textureFlags, textureCount, body) ==
  PVMH \o Bytes32(4 + textureCount * metadataSize(textureFlags))
  \o Bytes16(textureFlags) \o Bytes16(textureCount)
  \o Concat([k \in 1 .. textureCount |-> Metadata(textureFlags, k - 1)])
  \o body

\* PVMH, a version, the count, the file size, the directory (name, offset
\* and size of every texture; ranges[k] is << offset, size >> counted from
\* the end of the directory), and then whatever follows it
FormatB(ranges, body) ==
  LET numTextures == Len(ranges)
      directoryEnd == 16 + 36 * numTextures
  IN PVMH \o Bytes32(1) \o Bytes32(numTextures)
     \o Bytes32(directoryEnd + Len(body))
     \o Concat([k \in 1 .. numTextures |->
                  FieldName(k - 1) \o Bytes32(directoryEnd + ranges[k][1])
                  \o Bytes32(ranges[k][2])])
     \o body

FlagWords == {0, 5, 8, 15}

\* archives of the first layout: whole textures, with and without padding
\* before them
WholeArchivesA ==
  { FormatA(f, n, Body(gap, n)) :
      f \in FlagWords, n \in 0 .. MaxTextures, gap \in {0, 3} }

\* the last texture declares 12 bytes and the file ends after 4 of them;
\* the count announces one texture more than the file holds; a marker with
\* no size after it
BrokenArchivesA ==
  { FormatA(0, n, Body(0, n - 1) \o Texture(12, 4)) : n \in 1 .. MaxTextures }
  \cup { FormatA(0, n, Body(0, n - 1)) : n \in 1 .. MaxTextures }
  \cup { FormatA(0, 1, PVRT) }

\* the marker is the last position the bounded search examines, and the
\* first it does not
FarArchivesA ==
  { FormatA(0, 1, Zeros(gap) \o Texture(8, 8)) :
      gap \in {maxAttempts - 1, maxAttempts} }

\* archives of the second layout: every texture in its own 16 bytes; all in
\* the same 16 bytes; each 8 bytes into the one before; all past the end
ArchivesB ==
  UNION { { FormatB([k \in 1 .. n |-> << 16 * (k - 1), 16 >>], Body(0, n)),
            FormatB([k \in 1 .. n |-> << 0, 16 >>], Body(0, n)),
            FormatB([k \in 1 .. n |-> << 8 * (k - 1), 16 >>], Body(0, n)),
            FormatB([k \in 1 .. n |-> << 16 * n + 100, 16 >>], Body(0, n)) } :
          n \in 0 .. MaxTextures }

\* files of neither layout: the magic and zeros, the magic alone, a cut
\* magic, another magic
OtherFiles ==
  { PVMH \o Zeros(12), PVMH, << 80, 86 >>, << 80, 86, 77, 88 >> \o Zeros(12) }

Archives ==
  WholeArchivesA \cup BrokenArchivesA \cup FarArchivesA \cup ArchivesB
  \cup OtherFiles

ArchiveDecoders == {"PVMViewer", "PVRImage", "part_005"}

PvmInit ==
  /\ pvmPc = "ready"
  /\ pvmRev \in ArchiveDecoders
  /\ pvmFile \in Archives
  /\ pvmError = NoError
  /\ entries = << >>
  /\ PvrIdle
  /\ NjIdle
  /\ MemoIdle
  /\ UiIdle

\* The end of an archive call: the promise is fulfilled with the entries,
\* or rejected with the error and nothing else.
PvmFinish(res) ==
  /\ pvmPc' = IF res.err = NoError THEN "returned" ELSE "thrown"
  /\ pvmError' = res.err
  /\ entries' = res.entries
  /\ UNCHANGED << pvmRev, pvmFile >>
  /\ UNCHANGED << pvrVars, njVars, memoVars, uiVars >>

\* components/PVMViewer.tsx: the marker search has no limit of its own
PVMViewerParsePVMFile ==
  /\ pvmPc = "ready"
  /\ pvmRev = "PVMViewer"
  /\ PvmFinish(parsePVMFile(pvmFile, Len(pvmFile) + 1))

\* components/PVRImage.tsx
PVRImageParsePVMFile ==
  /\ pvmPc = "ready"
  /\ pvmRev = "PVRImage"
  /\ PvmFinish(parsePVMFile(pvmFile, maxAttempts))

\* unnamed/part_005
ParsePvm ==
  /\ pvmPc = "ready"
  /\ pvmRev = "part_005"
  /\ PvmFinish(parsePvm(pvmFile))

PvmNext == PVMViewerParsePVMFile \/ PVRImageParsePVMFile \/ ParsePvm

PvmSpec == PvmInit /\ [][PvmNext]_vars

(***************************************************************************)
(* Model decoding: parseNinjaModel as the steps of its calls.  The calls   *)
(* of readBone and readChunk that are entered or pending are a stack of    *)
(* frames, the innermost first; depth is the nesting of the call, and a    *)
(* call nested deeper than MaxCallDepth ends the decode with the           *)
(* RangeError of an exhausted call stack.                                  *)
(***************************************************************************)
\* new Bone(): scale (1, 1, 1), position and rotation 0, as float bits
floatOne == 1065353216

\* The section that is being read, and the bytes of its chunk
magicOf(file, k) == file[k].magic
chunkOf(file, k) == file[k].chunk

\* readBone: the fields of the bone record at the reader's position
boneRecord(stream, at) ==
  [flags |-> readUInt32(stream, at),
   chunkOfs |-> readUInt32(stream, at + 4),
   pos |-> readVector3(stream, at + 8),
   rot |-> << readUInt32(stream, at + 20), readUInt32(stream, at + 24),
              readUInt32(stream, at + 28) >>,
   scl |-> readVector3(stream, at + 32),
   childOfs |-> readUInt32(stream, at + 44),
   siblingOfs |-> readUInt32(stream, at + 48)]

\* What readBone copies of a bone record into the bone, by the flags
localMatrix(record) ==
  [position |-> IF isBitFlagSet(record.flags, 0) THEN << 0, 0, 0 >> ELSE record.pos,
   rotation |-> IF isBitFlagSet(record.flags, 1) THEN << 0, 0, 0 >>
                ELSE IF isBitFlagSet(record.flags, 5)
                THEN << record.rot[3], record.rot[1], record.rot[2] >>
                ELSE record.rot,
   scale |-> IF isBitFlagSet(record.flags, 2)
             THEN << floatOne, floatOne, floatOne >> ELSE record.scl]

\* A frame: readBone(parent) or readChunk() entered with the reader at
\* offset at, or the do-while loop of a readChunk that is under way
Frame(op, at, parent, depth) == [op |-> op, at |-> at, parent |-> parent, depth |-> depth]

\* The fields of a NinjaModel
model ==
  [bones |-> bones, stack |-> stack, cursor |-> cursor, memStack |-> memStack,
   currentBone |-> currentBone, currentMaterial |-> currentMaterial,
   currentColor |-> currentColor, flipV |-> flipV, materials |-> materials,
   vertexList |-> vertexList, arrays |-> arrays]

\* new NinjaModel(chunk)
constructed ==
  [bones |-> << >>, stack |-> << >>, cursor |-> 0, memStack |-> << >>,
   currentBone |-> Undefined, currentMaterial |-> constructedMaterial,
   currentColor |-> White, flipV |-> FALSE, materials |-> << >>,
   vertexList |-> << >>, arrays |-> noArrays]

\* parseNinjaModel before a section is read: const result = {}
emptyResult ==
  [geometry |-> << >>, textureNames |-> << >>, materials |-> << >>,
   materialIndices |-> << >>]

(***************************************************************************)
(* The model files that are decoded.  A file is its sections in order: the *)
(* magic of each, the bytes of its chunk when it is an NJCM chunk and the   *)
(* texture names readNjtl finds in it when it is an NJTL chunk.            *)
(***************************************************************************)
Section(magic, chunk, names) == [magic |-> magic, chunk |-> chunk, names |-> names]

\* A bone record with its position (token, 0, 0), rotation (1, 2, 3) and
\* scale (2, 2, 2) as the stored 32-bit values
BoneBytes(flags, chunkOfs, token, childOfs, siblingOfs) ==
  Bytes32(flags) \o Bytes32(chunkOfs)
  \o Bytes32(token) \o Bytes32(0) \o Bytes32(0)
  \o Bytes32(1) \o Bytes32(2) \o Bytes32(3)
  \o Bytes32(2) \o Bytes32(2) \o Bytes32(2)
  \o Bytes32(childOfs) \o Bytes32(siblingOfs)

\* Where the records of a skeleton lie: the order of the records in the
\* file and the bytes between two of them.  They lie one after the other,
\* or, the root apart, in the opposite order with eight bytes between them.
InFileOrder == [gap |-> 0, order |-> [i \in 1 .. MaxBones |-> i]]
Placements ==
  { InFileOrder,
    [gap |-> 8, order |-> [i \in 1 .. MaxBones |-> IF i = 1 THEN 1 ELSE MaxBones + 2 - i]] }

\* the offset of record k under a placement; 0 for no record
OffsetOf(place, k) ==
  IF k = 0 THEN 0
  ELSE ((CHOOSE i \in 1 .. MaxBones : place.order[i] = k) - 1)
       * (BoneRecordSize + place.gap)

\* The links of a skeleton: for every record the record its child offset
\* and the one its sibling offset name, 0 for none (an offset of 0 is no
\* link, so no link names the root); at most MaxBones of the offsets are
\* not 0
Linked == {0} \cup (2 .. MaxBones)
Links ==
  { links \in [1 .. MaxBones -> [child : Linked, sibling : Linked]] :
      Cardinality({ k \in 1 .. MaxBones : links[k].child # 0 })
        + Cardinality({ k \in 1 .. MaxBones : links[k].sibling # 0 }) <= MaxBones }

\* The chunk of a skeleton: record k with token k at its offset
Skeleton(place, links, flags) ==
  Concat([i \in 1 .. MaxBones |->
            (IF i = 1 THEN << >> ELSE Zeros(place.gap))
            \o BoneBytes(flags, 0, place.order[i],
                         OffsetOf(place, links[place.order[i]].child),
                         OffsetOf(place, links[place.order[i]].sibling))])

SkeletonFiles ==
  { << Section("NJCM", Skeleton(place, links, 0), << >>) >> :
      place \in Placements, links \in Links }

Chain == [k \in 1 .. MaxBones |->
            [child |-> IF k < MaxBones THEN k + 1 ELSE 0, sibling |-> 0]]

FlaggedFiles ==
  { << Section("NJCM",
               Skeleton(InFileOrder, Chain, flags), << >>) >> :
      flags \in {1, 2, 4, 32, 39} }

\* The chunks of a chunk stream
EndChunk == << NJD_ENDOFF, 0 >>
BitsChunk(head, flag) == << head, flag >>
TinyChunk(head, texId) == << head, 0 >> \o Bytes16(texId)

ColorBytes(token) == << token, 0, token, 255 >>

MaterialChunk(head, flag, token) ==
  LET colors == (IF isBitFlagSet(head, 0) THEN ColorBytes(token) ELSE << >>)
                \o (IF isBitFlagSet(head, 1) THEN ColorBytes(token + 1) ELSE << >>)
                \o (IF isBitFlagSet(head, 2) THEN ColorBytes(token + 2) ELSE << >>)
  IN << head, flag >> \o Bytes16(Len(colors) \div 2) \o colors

\* A vertex chunk of vertexCount vertices for the slots from indexOffset on
VertexChunk(head, flag, indexOffset, vertexCount) ==
  LET vertexBytes(i) ==
        Bytes32(indexOffset + i + 1) \o Bytes32(head) \o Bytes32(0)
        \o (IF head > 40 /\ head < 48
            THEN Bytes32(0) \o Bytes32(0) \o Bytes32(indexOffset + i + 1) ELSE << >>)
        \o (IF head = 35 \/ head = 42
            THEN << indexOffset + i + 1, 0, 0, 20 * (indexOffset + i) >> ELSE << >>)
        \o (IF head = 44 THEN Bytes16(i) \o Bytes16(128) ELSE << >>)
      body == Concat([i \in 1 .. vertexCount |-> vertexBytes(i - 1)])
  IN << head, flag >> \o Bytes16((Len(body) + 4) \div 2)
     \o Bytes16(indexOffset) \o Bytes16(vertexCount) \o body

\* A strip: its winding and the slots it refers to
Strip(clockwise, refs) == [clockwise |-> clockwise, refs |-> refs]

StripBytes(head, strip) ==
  LET n == Len(strip.refs)
  IN Bytes16(IF strip.clockwise /\ n > 0 THEN 65536 - n ELSE n)
     \o Concat([k \in 1 .. n |->
                  Bytes16(strip.refs[k])
                  \o (IF head = 65 \/ head = 66
                      THEN Bytes16(10 * k) \o Bytes16(20 * k) ELSE << >>)])

StripChunk(head, flag, strips) ==
  LET body == Bytes16(Len(strips))
              \o Concat([k \in 1 .. Len(strips) |-> StripBytes(head, strips[k])])
  IN << head, flag >> \o Bytes16(Len(body) \div 2) \o body

\* n references that go round the slots 0 .. 3
Refs(n) == [k \in 1 .. n |-> (k - 1) % 4]

VertexStreams ==
  { VertexChunk(head, 0, 0, 4) \o EndChunk : head \in {32, 35, 41, 42} }
  \cup { VertexChunk(41, 0, 0, 2) \o VertexChunk(32, 0, 2, 2) \o EndChunk,
         VertexChunk(35, 0, 0, 2) \o VertexChunk(41, 0, 2, 2) \o EndChunk,
         VertexChunk(32, 0, 0, 3) \o VertexChunk(32, 0, 5, 1) \o EndChunk,
         VertexChunk(32, 0, 0, 4) \o VertexChunk(44, 129, 0, 4) \o EndChunk,
         VertexChunk(42, 0, 0, 4) \o VertexChunk(44, 129, 0, 4) \o EndChunk,
         MaterialChunk(17, 0, 10) \o VertexChunk(32, 0, 0, 4) \o EndChunk }

Triangle == Strip(FALSE, << 0, 1, 2 >>)

StripStreams ==
  { StripChunk(head, 0, << Strip(clockwise, Refs(n)) >>) \o EndChunk :
      head \in {64, 65}, clockwise \in BOOLEAN, n \in 0 .. MaxStrip }
  \cup { StripChunk(64, 0, << Triangle, Strip(TRUE, << 1, 2, 0, 1 >>) >>) \o EndChunk,
         StripChunk(64, 0, << Triangle >>)
           \o StripChunk(64, 0, << Strip(FALSE, << 0, 1, 3 >>) >>) \o EndChunk,
         StripChunk(64, 0, << Triangle, Strip(TRUE, << 2, 1, 7 >>) >>) \o EndChunk,
         MaterialChunk(17, 0, 10) \o StripChunk(64, 0, << Triangle >>)
           \o MaterialChunk(17, 0, 20) \o StripChunk(64, 0, << Triangle >>)
           \o MaterialChunk(17, 0, 10) \o StripChunk(64, 0, << Strip(TRUE, Refs(4)) >>)
           \o EndChunk,
         MaterialChunk(23, 12, 10) \o TinyChunk(8, 3) \o StripChunk(64, 16, << Triangle >>)
           \o BitsChunk(1, 0) \o StripChunk(64, 16, << Triangle >>)
           \o TinyChunk(8, 3) \o BitsChunk(1, 12) \o StripChunk(64, 16, << Triangle >>)
           \o StripChunk(64, 0, << Triangle >>) \o EndChunk,
         StripChunk(64, 0, << Triangle >>) \o StripChunk(64, 0, << Triangle >>)
           \o EndChunk,
         BitsChunk(0, 0) \o BitsChunk(80, 0) \o StripChunk(64, 0, << Triangle >>)
           \o EndChunk,
         BitsChunk(5, 0) \o StripChunk(64, 0, << Triangle >>) \o EndChunk,
         BitsChunk(5, 0) \o MaterialChunk(17, 0, 10) \o StripChunk(64, 0, << Triangle >>)
           \o EndChunk,
         BitsChunk(5, 0) \o BitsChunk(5, 0) \o StripChunk(64, 0, << Triangle >>)
           \o EndChunk,
         TinyChunk(8, 3) \o BitsChunk(5, 0) \o StripChunk(64, 0, << Triangle >>)
           \o EndChunk,
         << 8, 240 >> \o Bytes16(3) \o StripChunk(65, 0, << Triangle >>) \o EndChunk,
         BitsChunk(5, 128) \o Zeros(128) \o StripChunk(64, 0, << Triangle >>) \o EndChunk,
         BitsChunk(5, 200) \o StripChunk(64, 0, << Triangle >>) \o EndChunk,
         StripChunk(64, 0, << Triangle >>),
         StripChunk(64, 0, << Triangle >>) \o BitsChunk(56, 0) \o EndChunk }

\* The chunk of a chain of bones, each the child of the one before, bone k
\* with the sub-mesh meshes[k]: the records, the sub-mesh definitions (the
\* offsets of the vertex list and of the strips), the chunk streams
RECURSIVE StreamsBefore(_, _)
StreamsBefore(meshes, k) ==
  IF k = 1 THEN 0
  ELSE StreamsBefore(meshes, k - 1)
       + Len(meshes[k - 1].vertex) + Len(meshes[k - 1].strips)

MeshChunk(meshes) ==
  LET n == Len(meshes)
      streams == n * (BoneRecordSize + 8)
      vertexOfs(k) == streams + StreamsBefore(meshes, k)
      stripOfs(k) == vertexOfs(k) + Len(meshes[k].vertex)
  IN Concat([k \in 1 .. n |->
               BoneBytes(0, n * BoneRecordSize + 8 * (k - 1), k,
                         IF k < n THEN k * BoneRecordSize ELSE 0, 0)])
     \o Concat([k \in 1 .. n |->
                  Bytes32(IF meshes[k].vertex = << >> THEN 0 ELSE vertexOfs(k))
                  \o Bytes32(IF meshes[k].strips = << >> THEN 0 ELSE stripOfs(k))])
     \o Concat([k \in 1 .. n |-> meshes[k].vertex \o meshes[k].strips])

Mesh(vertex, strips) == [vertex |-> vertex, strips |-> strips]

MeshFiles ==
  { << Section("NJCM", MeshChunk(<< Mesh(vertex, strips) >>), << >>) >> :
      vertex \in VertexStreams, strips \in StripStreams }

Plain == VertexChunk(32, 0, 0, 4) \o EndChunk
Quad == StripChunk(64, 0, << Strip(FALSE, Refs(4)) >>) \o EndChunk

\* a bone whose vertex list is read a second time from a pushed offset, and
\* a bone after one whose strips are
Called ==
  << Section("NJCM",
             MeshChunk(<< Mesh(BitsChunk(5, 0) \o Plain,
                               BitsChunk(5, 0) \o StripChunk(64, 0, << Triangle >>) \o EndChunk),
                          Mesh(VertexChunk(41, 0, 4, 3) \o EndChunk,
                               StripChunk(64, 0, << Strip(TRUE, << 4, 5, 6 >>) >>)
                               \o EndChunk) >>), << >>) >>

SeveralFiles ==
  { Called,
    << Section("NJCM",
               MeshChunk(<< Mesh(Plain, Quad),
                            Mesh(<< >>, StripChunk(64, 0, << Strip(FALSE, << 0, 1, 9 >>) >>)
                                        \o EndChunk) >>), << >>) >>,
    << Section("NJCM",
               MeshChunk(<< Mesh(Plain, Quad),
                            Mesh(VertexChunk(41, 0, 4, 3) \o EndChunk,
                                 StripChunk(64, 0, << Strip(TRUE, << 4, 5, 6 >>) >>)
                                 \o EndChunk) >>), << >>) >>,
    << Section("NJTL", << >>, << "tex0", "tex1" >>),
       Section("NJCM", MeshChunk(<< Mesh(Plain, Quad) >>), << >>),
       Section("POF0", << >>, << >>) >>,
    << Section("NJCM", MeshChunk(<< Mesh(Plain, Quad) >>), << >>),
       Section("NJCM", MeshChunk(<< Mesh(Plain, << >>) >>), << >>) >>,
    << Section("NJTL", << >>, << "tex0" >>), Section("NMDM", << >>, << >>),
       Section("NJCM", MeshChunk(<< Mesh(Plain, Quad) >>), << >>) >> }

NinjaFiles == SkeletonFiles \cup FlaggedFiles \cup MeshFiles \cup SeveralFiles

NjInit ==
  /\ PvrIdle
  /\ PvmIdle
  /\ MemoIdle
  /\ UiIdle
  /\ njPc = "sections"
  /\ njFile \in NinjaFiles
  /\ section = 1
  /\ result = emptyResult
  /\ njError = NoError
  /\ bones = constructed.bones
  /\ stack = constructed.stack
  /\ cursor = constructed.cursor
  /\ memStack = constructed.memStack
  /\ currentBone = constructed.currentBone
  /\ currentMaterial = constructed.currentMaterial
  /\ currentColor = constructed.currentColor
  /\ flipV = constructed.flipV
  /\ materials = constructed.materials
  /\ vertexList = constructed.vertexList
  /\ arrays = constructed.arrays

Becomes(new) ==
  /\ bones' = new.bones
  /\ stack' = new.stack
  /\ cursor' = new.cursor
  /\ memStack' = new.memStack
  /\ currentBone' = new.currentBone
  /\ currentMaterial' = new.currentMaterial
  /\ currentColor' = new.currentColor
  /\ flipV' = new.flipV
  /\ materials' = new.materials
  /\ vertexList' = new.vertexList
  /\ arrays' = new.arrays

\* a step inside the walk of an NJCM section
Walks(new) ==
  /\ Becomes(new)
  /\ UNCHANGED << njPc, njFile, section, result, njError >>
  /\ UNCHANGED << pvrVars, pvmVars, memoVars, uiVars >>

\* an error leaves parseNinjaModel: the caller gets the error and nothing
\* else
Throws(err) ==
  /\ njPc' = "thrown"
  /\ njError' = err
  /\ result' = << >>
  /\ UNCHANGED << njFile, section >>
  /\ UNCHANGED << pvrVars, pvmVars, memoVars, uiVars >>

Continues(err, new) == IF err # NoError THEN Throws(err) /\ Becomes(model) ELSE Walks(new)

\* the while of parseNinjaModel after section k: the next section, or return
AfterSection(k) ==
  /\ section' = k + 1
  /\ njPc' = IF k + 1 > Len(njFile) THEN "returned" ELSE "sections"

\* parseNinjaModel: one pass of the do-while over the sections
ReadSection ==
  /\ njPc = "sections"
  /\ LET magic == magicOf(njFile, section)
     IN CASE magic = "NJTL" ->
               /\ result' = [result EXCEPT !.textureNames = njFile[section].names]
               /\ AfterSection(section)
               /\ Becomes(model)
          [] magic = "NJCM" ->
               /\ njPc' = "model"
               /\ Becomes([constructed EXCEPT
                             !.stack = << Frame("readBone", 0, Undefined, 1) >>])
               /\ UNCHANGED << section, result >>
          [] magic = "POF0" ->
               /\ AfterSection(section)
               /\ Becomes(model)
               /\ UNCHANGED result
          [] OTHER ->
               /\ njPc' = "returned"
               /\ Becomes(model)
               /\ UNCHANGED << section, result >>
  /\ UNCHANGED << njFile, njError >>
  /\ UNCHANGED << pvrVars, pvmVars, memoVars, uiVars >>

\* The calls of a walk that goes to the sibling before the sub-mesh and the
\* child
callsOfSiblingFirst(stream, record, index, parent, depth) ==
  LET vertexOfs == readUInt32(stream, record.chunkOfs)
      stripOfs == readUInt32(stream, record.chunkOfs + 4)
  IN (IF record.siblingOfs # 0
      THEN << Frame("readBone", record.siblingOfs, parent, depth + 1) >> ELSE << >>)
     \o (IF record.chunkOfs # 0 /\ vertexOfs # 0
         THEN << Frame("readChunk", vertexOfs, Undefined, depth + 1) >> ELSE << >>)
     \o (IF record.chunkOfs # 0 /\ stripOfs # 0
         THEN << Frame("readChunk", stripOfs, Undefined, depth + 1) >> ELSE << >>)
     \o (IF record.childOfs # 0
         THEN << Frame("readBone", record.childOfs, index, depth + 1) >> ELSE << >>)

\* the calls readBone makes after the bone is created, in their order: the
\* vertex list and the strips of its sub-mesh, the child, the sibling
callsOf(stream, record, index, parent, depth) ==
  LET vertexOfs == readUInt32(stream, record.chunkOfs)
      stripOfs == readUInt32(stream, record.chunkOfs + 4)
  IN (IF record.chunkOfs # 0 /\ vertexOfs # 0
      THEN << Frame("readChunk", vertexOfs, Undefined, depth + 1) >> ELSE << >>)
     \o (IF record.chunkOfs # 0 /\ stripOfs # 0
         THEN << Frame("readChunk", stripOfs, Undefined, depth + 1) >> ELSE << >>)
     \o (IF record.childOfs # 0
         THEN << Frame("readBone", record.childOfs, index, depth + 1) >> ELSE << >>)
     \o (IF record.siblingOfs # 0
         THEN << Frame("readBone", record.siblingOfs, parent, depth + 1) >> ELSE << >>)

\* readBone(parentBone) up to the calls it makes: the record at the reader's
\* position is read and the bone is created and added to its parent
ReadBone ==
  /\ njPc = "model"
  /\ stack # << >>
  /\ Head(stack).op = "readBone"
  /\ LET call == Head(stack)
         stream == chunkOf(njFile, section)
         record == boneRecord(stream, call.at)
         index == Len(bones)
         local == localMatrix(record)
         bone == [name |-> index,
                  parent |-> call.parent,
                  matrix |-> local,
                  matrixWorld |-> IF call.parent = Undefined THEN << local >>
                                  ELSE Append(bones[call.parent + 1].matrixWorld, local)]
     IN IF call.depth > MaxCallDepth THEN Throws(ErrStack) /\ Becomes(model)
        ELSE IF ~InStream(stream, call.at, BoneRecordSize)
                \/ (record.chunkOfs # 0 /\ ~InStream(stream, record.chunkOfs, 8))
        THEN Throws(ErrRange) /\ Becomes(model)
        ELSE Walks([model EXCEPT
                      !.bones = Append(bones, bone),
                      !.currentBone = index,
                      !.cursor = call.at + BoneRecordSize,
                      !.stack = callsOf(stream, record, index, call.parent, call.depth)
                                \o Tail(stack)])

\* readChunk() up to its loop: the current material and color are reset
EnterChunk ==
  /\ njPc = "model"
  /\ stack # << >>
  /\ Head(stack).op = "readChunk"
  /\ LET call == Head(stack)
     IN IF call.depth > MaxCallDepth THEN Throws(ErrStack) /\ Becomes(model)
        ELSE Walks([model EXCEPT
                      !.cursor = call.at,
                      !.currentMaterial = resetMaterial,
                      !.currentColor = White,
                      !.stack = << Frame("chunks", call.at, Undefined, call.depth) >>
                                \o Tail(stack)])

\* the loop of readChunk is about to read the tag of a chunk with this head
AtChunk(heads) ==
  /\ njPc = "model"
  /\ stack # << >>
  /\ Head(stack).op = "chunks"
  /\ InStream(chunkOf(njFile, section), cursor, 2)
  /\ readUInt8(chunkOf(njFile, section), cursor) \in heads

\* head 0xff: the loop ends.  With no offset on the memory stack readChunk
\* returns; otherwise the last offset is popped and readChunk is called at
\* it, which resets the current material and color and reads on from there.
ReadEndChunk ==
  /\ AtChunk({NJD_ENDOFF})
  /\ IF ~pending(memStack)
     THEN Walks([model EXCEPT !.cursor = cursor + 2, !.stack = Tail(stack)])
     ELSE IF Head(stack).depth + 1 > MaxCallDepth THEN Throws(ErrStack) /\ Becomes(model)
     ELSE Walks([model EXCEPT
                   !.cursor = memStack[Len(memStack)],
                   !.memStack = SubSeq(memStack, 1, Len(memStack) - 1),
                   !.currentMaterial = resetMaterial,
                   !.currentColor = White,
                   !.stack = << Frame("chunks", memStack[Len(memStack)], Undefined,
                                      Head(stack).depth + 1) >>
                             \o Tail(stack)])

\* the reader is at the end of the chunk: the read of the next tag fails
ReadPastEnd ==
  /\ njPc = "model"
  /\ stack # << >>
  /\ Head(stack).op = "chunks"
  /\ ~InStream(chunkOf(njFile, section), cursor, 2)
  /\ Throws(ErrRange)
  /\ Becomes(model)

\* a head above 0x4b, or 0: nothing but the tag is read
SkipChunk ==
  /\ AtChunk({NJD_NULLOFF} \cup ((NJD_STRIPOFF + 12) .. (NJD_ENDOFF - 1)))
  /\ Walks([model EXCEPT !.cursor = skipTag(cursor)])

ReadStripChunk ==
  /\ AtChunk(NJD_STRIPOFF .. (NJD_STRIPOFF + 11))
  /\ LET read == readStripChunk(chunkOf(njFile, section), cursor, flipV, currentMaterial,
                                materials, vertexList, arrays)
     IN Continues(read.err,
                 [model EXCEPT !.cursor = read.cursor,
                               !.currentMaterial = read.currentMaterial,
                               !.materials = read.materials,
                               !.vertexList = read.vertexList,
                               !.arrays = read.arrays])

ReadVolumeChunk ==
  /\ AtChunk(NJD_VOLOFF .. (NJD_STRIPOFF - 1))
  /\ Throws(ErrVolume)
  /\ Becomes(model)

ReadVertexChunk ==
  /\ AtChunk(NJD_VERTOFF .. (NJD_VOLOFF - 1))
  /\ LET read == readVertexChunk(chunkOf(njFile, section), cursor, vertexList, Len(bones),
                                 bones[currentBone + 1].matrixWorld)
     IN Continues(read.err,
                 [model EXCEPT !.cursor = read.cursor, !.vertexList = read.vertexList])

ReadMaterialChunk ==
  /\ AtChunk(NJD_MATOFF .. (NJD_VERTOFF - 1))
  /\ LET read == readMaterialChunk(chunkOf(njFile, section), cursor, currentMaterial, currentColor)
     IN Continues(read.err,
                 [model EXCEPT !.cursor = read.cursor,
                               !.currentMaterial = read.currentMaterial,
                               !.currentColor = read.currentColor])

\* readTinyChunk: the texture id, and flipV from bit 7 of the head
ReadTinyChunk ==
  /\ AtChunk(NJD_TINYOFF .. (NJD_MATOFF - 1))
  /\ IF ~InStream(chunkOf(njFile, section), cursor, 4) THEN Throws(ErrRange) /\ Becomes(model)
     ELSE Walks([model EXCEPT
                   !.cursor = cursor + 4,
                   !.currentMaterial.texId = readUInt16(chunkOf(njFile, section), cursor + 2) % 8192,
                   !.flipV = isBitFlagSet(readUInt8(chunkOf(njFile, section), cursor), 7)])

\* readBitsChunk: head 1 sets the blending; head 5 pushes the reader's
\* position and moves the reader on by the flag
ReadBitsChunk ==
  /\ AtChunk(NJD_BITSOFF .. (NJD_TINYOFF - 1))
  /\ LET head == readUInt8(chunkOf(njFile, section), cursor)
         flag == readUInt8(chunkOf(njFile, section), cursor + 1)
     IN Walks([model EXCEPT
                 !.cursor = IF head = 5 THEN cursor + 2 + flag ELSE cursor + 2,
                 !.memStack = IF head = 5 THEN Append(memStack, cursor + 2) ELSE @,
                 !.currentMaterial.blending = IF head = 1 THEN blendingOf(flag) ELSE @])

\* readBone has returned to parseNinjaModel: the geometry, the materials
\* and the material indices go into the result
FinishModel ==
  /\ njPc = "model"
  /\ stack = << >>
  /\ result' = [result EXCEPT !.geometry = getGeometry(arrays),
                              !.materials = materials,
                              !.materialIndices = arrays.materialIndices]
  /\ AfterSection(section)
  /\ Becomes(model)
  /\ UNCHANGED << njFile, njError >>
  /\ UNCHANGED << pvrVars, pvmVars, memoVars, uiVars >>

NjNext ==
  \/ ReadSection
  \/ ReadBone
  \/ EnterChunk
  \/ ReadEndChunk
  \/ ReadPastEnd
  \/ SkipChunk
  \/ ReadStripChunk
  \/ ReadVolumeChunk
  \/ ReadVertexChunk
  \/ ReadMaterialChunk
  \/ ReadTinyChunk
  \/ ReadBitsChunk
  \/ FinishModel

NjSpec == NjInit /\ [][NjNext]_vars

\* the decode has neither returned nor thrown: a step of it can be taken
Running == njPc \notin {"returned", "thrown"}

\* parseNinjaModel is synchronous: a decode that can take a step takes it.
\* This is WF_vars(NjNext), with Running for ENABLED << NjNext >>_vars.
NjFair == <>[]Running => []<><< NjNext >>_vars

NjRunSpec == NjInit /\ [][NjNext]_vars /\ NjFair


(***************************************************************************)
(* src/unnamed/part_001: untwiddle with its memo table, which the          *)
(* decodeTwiddled calls of the component share.  A step is one pass of the *)
(* pixel loop of one call; the passes of the calls are interleaved.        *)
(***************************************************************************)
\* the decimal digits of n as character codes
RECURSIVE Decimal(_)
Decimal(n) == IF n < 10 THEN << 48 + n >> ELSE Decimal(n \div 10) \o << 48 + (n % 10) >>

\* a key that joins the two numbers without a separator
mortonKeyJoined(x, y) == Decimal(x) \o Decimal(y)
\* the key `${x}_${y}` as its character codes
mortonKey(x, y) == Decimal(x) \o << 95 >> \o Decimal(y)

\* untwiddle(x, y) with the memo table: the value returned and the table
\* after the call
untwiddleMemo(table, x, y) ==
  IF mortonKey(x, y) \in DOMAIN table
  THEN [morton |-> table[mortonKey(x, y)], table |-> table]
  ELSE [morton |-> untwiddle(x, y),
        table |-> (mortonKey(x, y) :> untwiddle(x, y)) @@ table]

\* The textures of the interleaved calls: width and height
Shapes == { << 2, 2 >>, << 12, 1 >>, << 2, 11 >> }

MemoBuffer(shape) ==
  MakeBuffer(Undefined, "PVRT", RGB565, TWIDDLED, shape[1], shape[2], "mix", 512)

MemoInit ==
  /\ PvrIdle
  /\ PvmIdle
  /\ NjIdle
  /\ UiIdle
  /\ mortonLookupTable = << >>
  /\ decoding \in [1 .. MaxDecodes ->
                     { [view |-> MemoBuffer(shape), n |-> 0, pixels |-> << >>] :
                         shape \in Shapes }]

\* one pass of the loop of decodeTwiddled in call c: pixel n = y * width + x
DecodePixel(c, memoized) ==
  LET call == decoding[c]
      x == call.n % call.view.width
      y == call.n \div call.view.width
      looked == untwiddleMemo(mortonLookupTable, x, y)
      i == looked.morton
  IN /\ call.n < call.view.width * call.view.height
     /\ memoized = (mortonKey(x, y) \in DOMAIN mortonLookupTable)
     /\ mortonLookupTable' = looked.table
     /\ decoding' = [decoding EXCEPT
                       ![c].n = @ + 1,
                       ![c].pixels =
                          Append(@, IF i * 2 + 2 <= call.view.byteLength
                                    THEN convertPixelFormat(getUint16(call.view, i * 2),
                                                            call.view.colorFormat)
                                    ELSE << 0, 0, 0, 0 >>)]
     /\ UNCHANGED << pvrVars, pvmVars, njVars, uiVars >>

\* untwiddle computes the index and stores it in the table
UntwiddleComputed == \E c \in 1 .. MaxDecodes : DecodePixel(c, FALSE)

\* untwiddle returns the index the table holds
UntwiddleMemoized == \E c \in 1 .. MaxDecodes : DecodePixel(c, TRUE)

MemoNext == UntwiddleComputed \/ UntwiddleMemoized

MemoSpec == MemoInit /\ [][MemoNext]_vars

(***************************************************************************)
(* src/components/PVRImage.tsx: the effect of PVRImage that loads and      *)
(* draws the texture.  Every await of loadAndDrawTexture is a step; the    *)
(* calls started by successive renders run interleaved.                    *)
(***************************************************************************)
\* The files behind /iso/: gone.pvr and gone.pvp are answered with a status
\* that is not ok, bad.pvr is one that parsePvr rejects
Fetched(path) == path \notin {"gone.pvr", "gone.pvp"}
Decodes(assetPath) == assetPath # "bad.pvr"

\* The props of a render: assetPath and palettePath, "" when not given
Request(assetPath, palettePath) == [assetPath |-> assetPath, palettePath |-> palettePath]

Requests ==
  { Request("a.pvr", ""), Request("b.pvr", ""), Request("a.pvr", "a.pvp"),
    Request("b.pvr", "gone.pvp"), Request("bad.pvr", ""), Request("gone.pvr", ""),
    Request("", "") }

\* what the canvas holds
Blank == [kind |-> "blank", assetPath |-> "", palettePath |-> ""]
Placeholder == [kind |-> "placeholder", assetPath |-> "", palettePath |-> ""]
Drawn(assetPath, palettePath) ==
  [kind |-> "texture", assetPath |-> assetPath, palettePath |-> palettePath]

UiInit ==
  /\ PvrIdle
  /\ PvmIdle
  /\ NjIdle
  /\ MemoIdle
  /\ props = << >>
  /\ loads = << >>
  /\ screen = [canvas |-> Blank, header |-> "", error |-> << >>, loading |-> FALSE,
               paletteInfo |-> ""]

UiUnchanged == UNCHANGED << pvrVars, pvmVars, njVars, memoVars >>

\* load k goes on to its next await
Awaits(k, await) ==
  /\ loads' = [loads EXCEPT ![k].pc = await]
  /\ UNCHANGED << props, screen >>
  /\ UiUnchanged

\* the catch of loadAndDrawTexture: setError, setLoading(false),
\* drawPlaceholder
Catches(k, err) ==
  /\ loads' = [loads EXCEPT ![k].pc = "done"]
  /\ screen' = [screen EXCEPT !.error = err, !.loading = FALSE, !.canvas = Placeholder]
  /\ UNCHANGED props
  /\ UiUnchanged

\* a render with new paths and an assetPath: the effect calls
\* loadAndDrawTexture, which runs up to its first await
RenderAsset ==
  \E request \in Requests :
    /\ request.assetPath # ""
    /\ request # props
    /\ Len(loads) < MaxRenders
    /\ props' = request
    /\ loads' = Append(loads, [assetPath |-> request.assetPath,
                               palettePath |-> request.palettePath,
                               palette |-> "", pc |-> "fetch"])
    /\ screen' = [screen EXCEPT !.loading = TRUE, !.error = << >>]
    /\ UiUnchanged

\* a render with new paths and no assetPath: the effect draws the
\* placeholder
RenderNoAsset ==
  \E request \in Requests :
    /\ request.assetPath = ""
    /\ request # props
    /\ Len(loads) < MaxRenders
    /\ props' = request
    /\ loads' = Append(loads, [assetPath |-> "", palettePath |-> "",
                               palette |-> "", pc |-> "done"])
    /\ screen' = [screen EXCEPT !.canvas = Placeholder]
    /\ UiUnchanged

\* await fetch(`/iso/${assetPath}`)
FetchResolves ==
  \E k \in DOMAIN loads :
    /\ loads[k].pc = "fetch"
    /\ IF Fetched(loads[k].assetPath) THEN Awaits(k, "arrayBuffer")
       ELSE Catches(k, << "Failed to load texture", loads[k].assetPath >>)

\* await response.arrayBuffer()
BufferResolves ==
  \E k \in DOMAIN loads :
    /\ loads[k].pc = "arrayBuffer"
    /\ Awaits(k, IF loads[k].palettePath # "" THEN "paletteFetch" ELSE "parsePvr")

\* await fetch(`/iso/${palettePath}`)
PaletteFetchResolves ==
  \E k \in DOMAIN loads :
    /\ loads[k].pc = "paletteFetch"
    /\ Awaits(k, IF Fetched(loads[k].palettePath) THEN "paletteBuffer" ELSE "parsePvr")

\* await paletteResponse.arrayBuffer()
PaletteBufferResolves ==
  \E k \in DOMAIN loads :
    /\ loads[k].pc = "paletteBuffer"
    /\ Awaits(k, "parsePVPFile")

\* await parsePVPFile(paletteBuffer), then setPaletteInfo
ParsePVPFileResolves ==
  \E k \in DOMAIN loads :
    /\ loads[k].pc = "parsePVPFile"
    /\ loads' = [loads EXCEPT ![k].pc = "parsePvr", ![k].palette = loads[k].palettePath]
    /\ screen' = [screen EXCEPT !.paletteInfo = loads[k].palettePath]
    /\ UNCHANGED props
    /\ UiUnchanged

\* await parsePvr(buffer, palette?.palette), then setHeader, the canvas
\* size, putImageData and setLoading(false)
ParsePvrResolves ==
  \E k \in DOMAIN loads :
    /\ loads[k].pc = "parsePvr"
    /\ IF Decodes(loads[k].assetPath)
       THEN /\ loads' = [loads EXCEPT ![k].pc = "done"]
            /\ screen' = [screen EXCEPT
                             !.header = loads[k].assetPath,
                             !.canvas = Drawn(loads[k].assetPath, loads[k].palette),
                             !.loading = FALSE]
            /\ UNCHANGED props
            /\ UiUnchanged
       ELSE Catches(k, << "parsePvr", loads[k].assetPath >>)

UiNext ==
  \/ RenderAsset
  \/ RenderNoAsset
  \/ FetchResolves
  \/ BufferResolves
  \/ PaletteFetchResolves
  \/ PaletteBufferResolves
  \/ ParsePVPFileResolves
  \/ ParsePvrResolves

UiSpec == UiInit /\ [][UiNext]_vars

(***************************************************************************)
(* Properties of the texture decoder.                                      *)
(***************************************************************************)
\* a call that has ended on a buffer with the PVRT header where it is read
Ended == pc # "ready" /\ buffer.magic = "PVRT"

SquarePowerOfTwo == buffer.width = buffer.height /\ isPowerOfTwo(buffer.width)

\* The bytes drawImage leaves for a pixel: zeros when no case stores
drawImageStoreOrZero(v, colorFormat) ==
  IF drawImageStore(v, colorFormat) = << >> THEN << 0, 0, 0, 0 >>
  ELSE drawImageStore(v, colorFormat)

\* The four bytes of pixel (x, y) of the returned image
PixelAt(x, y) ==
  LET base == (y * buffer.width + x) * 4
  IN << imageData[base], imageData[base + 1], imageData[base + 2], imageData[base + 3] >>

\* C1: parsePvr called with a pixel-layout byte outside the supported set
\* (0x7f) fails with the unsupported-format error before any pixel-layout
\* decoder runs and returns neither a header nor a pixel buffer.
C1_UnknownLayoutFails ==
  (Ended /\ buffer.dataFormat \in UnknownLayouts)
    => /\ pc = "thrown"
       /\ error = ErrUnsupported
       /\ ran = "none"
       /\ header = << >>
       /\ imageData = << >>

\* C2: the library's decode of a twiddled, VQ or palettized layout whose
\* width or height is not a power of two fails and returns no pixel buffer.
C2_NonPowerOfTwoFails ==
  (/\ Ended
   /\ rev = "lib"
   /\ buffer.dataFormat \in
        {TWIDDLED, TWIDDLED_MM, TWIDDLED_MM_ALT} \cup VqFormats \cup PaletteFormats
   /\ ~(isPowerOfTwo(buffer.width) /\ isPowerOfTwo(buffer.height)))
    => /\ pc = "thrown"
       /\ imageData = << >>

\* the placement of readTwiddled for side S agrees with the lookup table
AgreesWithTable(S) ==
  LET lookUp == createDetwiddlingLookupTable(S, S)
  IN /\ lookUp.err = NoError
     /\ DOMAIN placed = 0 .. (S * S - 1)
     /\ \A p \in DOMAIN placed :
          /\ lookUp.table[placed[p]].x = p % S
          /\ lookUp.table[placed[p]].y = p \div S

\* C3: for every square power-of-two size, the k-th stored value that
\* readTwiddled places at pixel (x, y) is at the (x, y) that
\* createDetwiddlingLookupTable gives for index k (in the TWIDDLED decode,
\* and on the index grid of the VQ decode), and the TWIDDLED decode leaves
\* at that pixel the conversion of the k-th stored value.
C3_SameMortonConvention ==
  /\ (Ended /\ rev = "lib" /\ ran = "decodeTwiddle" /\ SquarePowerOfTwo)
       => /\ AgreesWithTable(buffer.width)
          /\ (pc = "returned" /\ ~header.hasMipmaps) =>
               LET lookUp == createDetwiddlingLookupTable(buffer.width, buffer.width)
               IN \A k \in DOMAIN lookUp.table :
                    PixelAt(lookUp.table[k].x, lookUp.table[k].y)
                      = drawImageStoreOrZero(getUint16(buffer, 2 * k), buffer.colorFormat)
  /\ (/\ pc = "returned" /\ rev = "lib" /\ ran = "decodeVector"
      /\ SquarePowerOfTwo /\ buffer.width \in 2 .. 16)
       => AgreesWithTable(buffer.width \div 2)

\* C3 witness: a 4 x 4 RGB565 TWIDDLED texture of the library was decoded
\* and the second stored value went to pixel (0, 1)
C3_Witness ==
  /\ pc = "returned"
  /\ rev = "lib"
  /\ ran = "decodeTwiddle"
  /\ buffer.width = 4
  /\ buffer.height = 4
  /\ buffer.colorFormat = RGB565
  /\ buffer.seed = "mix"
  /\ placed[4] = 1
  /\ PixelAt(0, 1) = drawImageStore(getUint16(buffer, 2), RGB565)
  /\ PixelAt(0, 1) # PixelAt(1, 0)

\* C4: for every power-of-two size S, createDetwiddlingLookupTable(S, S)
\* fills every index of [0, S*S) with a coordinate of [0,S) x [0,S), no
\* coordinate twice, and getTwiddledIndex applied to the (x, y) stored at
\* table[i] returns i.
C4_TableRoundTrip ==
  (pc # "ready" /\ rev = "lib" /\ lookUpTable # << >> /\ SquarePowerOfTwo)
    => LET S == buffer.width
       IN /\ DOMAIN lookUpTable = 0 .. (S * S - 1)
          /\ \A i \in DOMAIN lookUpTable :
               /\ lookUpTable[i] # << >>
               /\ lookUpTable[i].x \in 0 .. (S - 1)
               /\ lookUpTable[i].y \in 0 .. (S - 1)
          /\ \A i, j \in DOMAIN lookUpTable :
               lookUpTable[i] = lookUpTable[j] => i = j
          /\ \A i \in DOMAIN lookUpTable :
               getTwiddledIndex(lookUpTable[i].x, lookUpTable[i].y, S, S) = i

\* C5: a TWIDDLED_RECTANGLE texture with power-of-two width # height and
\* all its pixel data decodes successfully, and every byte of the
\* width x height output is written exactly once.
C5_TwiddledRectangleDecodes ==
  (/\ Ended
   /\ buffer.dataFormat = TWIDDLED_RECTANGLE
   /\ isPowerOfTwo(buffer.width)
   /\ isPowerOfTwo(buffer.height)
   /\ buffer.width # buffer.height
   /\ buffer.byteLength >= 2 * buffer.width * buffer.height
   /\ buffer.colorFormat \in {ARGB1555, RGB565, ARGB4444})
    => /\ pc = "returned"
       /\ \A j \in DOMAIN writes : writes[j] = 1

\* decodeVector (the same in the library and in part_005) was called and
\* read, or tried to read, its codebook
VqDecoderRan == Ended /\ ran = "decodeVector"

PaletteDecoded ==
  pc = "returned" /\ rev = "lib" /\ buffer.dataFormat \in PaletteFormats

\* C7: for the PALETTIZE4 layouts every data byte yields two palette
\* indices, the low nibble first and the high nibble second, with or
\* without an external palette; for the PALETTIZE8 layouts every byte
\* yields exactly one index.
C7_NibbleOrder ==
  PaletteDecoded =>
    IF buffer.dataFormat \in {PALETTIZE4, PALETTIZE4_MM}
    THEN /\ Len(bodyData) = 2 * buffer.byteLength
         /\ \A n \in 1 .. Len(bodyData) :
              bodyData[n] = IF n % 2 = 1
                            THEN BitAnd(getUint8(buffer, (n - 1) \div 2), 15)
                            ELSE Shr(getUint8(buffer, (n - 1) \div 2), 4)
    ELSE /\ Len(bodyData) = buffer.byteLength
         /\ \A n \in 1 .. Len(bodyData) : bodyData[n] = getUint8(buffer, n - 1)

\* the indices of the returned texture that name a color of the palette
\* file and whose table entry is a pixel of the image
Resolved ==
  { i \in DOMAIN lookUpTable :
      /\ i < Len(bodyData)
      /\ bodyData[i + 1] < pvp.entryCount
      /\ lookUpTable[i].x < buffer.width
      /\ lookUpTable[i].y < buffer.height }

\* C8: when a palette file is supplied for a palettized texture,
\* usedExternalPalette is true and every resolved color is converted with
\* the color format the palette file declares.
C8_PaletteFormatUsed ==
  (PaletteDecoded /\ pvp.present) =>
    /\ header.usedExternalPalette
    /\ \A i \in Resolved :
         PixelAt(lookUpTable[i].x, lookUpTable[i].y)
           = colorToRGBA(pvp.palette[bodyData[i + 1] + 1], pvp.format)

\* C9: a decode by the library of a texture whose color format is none of
\* ARGB1555, RGB565, ARGB4444, RGB555, ARGB8888 fails: once a pixel-layout
\* decoder is called for it, no image is returned.
C9_UnknownColorFormatFails ==
  (/\ Ended
   /\ rev = "lib"
   /\ ran # "none"
   /\ buffer.colorFormat \notin {ARGB1555, RGB565, ARGB4444, RGB555, ARGB8888})
    => pc = "thrown"

\* Every 4-bit field of an ARGB4444 value times 17, as <<R, G, B, A>>
Argb4444Scaled(v) ==
  << 17 * BitAnd(Shr(v, 8), 15), 17 * BitAnd(Shr(v, 4), 15),
     17 * BitAnd(v, 15), 17 * BitAnd(Shr(v, 12), 15) >>

\* the library returned a texture whose header says ARGB4444
Argb4444Decoded(decoder) ==
  pc = "returned" /\ rev = "lib" /\ ran = decoder /\ buffer.colorFormat = ARGB4444

\* C10: for every 16-bit ARGB4444 value, the rectangle path, the twiddled
\* path through drawImage and the palette path through colorToRGBA output
\* each of A, R, G and B as its 4-bit field times 17.
C10_Argb4444Scaled ==
  /\ Argb4444Decoded("decodeRectable") =>
       \A p \in 0 .. (buffer.width * buffer.height - 1) :
         PixelAt(p % buffer.width, p \div buffer.width)
           = Argb4444Scaled(getUint16(buffer, 2 * p))
  /\ (Argb4444Decoded("decodeTwiddle") /\ SquarePowerOfTwo /\ ~header.hasMipmaps) =>
       LET lookUp == createDetwiddlingLookupTable(buffer.width, buffer.width)
       IN \A k \in DOMAIN lookUp.table :
            PixelAt(lookUp.table[k].x, lookUp.table[k].y)
              = Argb4444Scaled(getUint16(buffer, 2 * k))
  /\ Argb4444Decoded("decodePaletteWithExternalData") =>
       \A i \in Resolved :
         PixelAt(lookUpTable[i].x, lookUpTable[i].y)
           = Argb4444Scaled(pvp.palette[bodyData[i + 1] + 1])

(***************************************************************************)
(* Properties of the archive decoders.                                     *)
(***************************************************************************)
\* an archive call that has ended on a file that starts with PVMH
PvmEnded ==
  /\ pvmPc \in {"returned", "thrown"}
  /\ InFile(pvmFile, 0, 4)
  /\ MagicAt(pvmFile, 0) = PVMH

\* The structure of the first layout: the size field counts the flags, the
\* count and the metadata records, and the records lie in the file
MatchesA(bytes) ==
  /\ InFile(bytes, 0, 12)
  /\ fileUint32(bytes, 4)
       = 4 + fileUint16(bytes, 10) * metadataSize(fileUint16(bytes, 8))
  /\ InFile(bytes, 8, fileUint32(bytes, 4))

\* The structure of the second layout: the file-size field is the length of
\* the file, and the directory lies in the file
MatchesB(bytes) ==
  /\ InFile(bytes, 0, 16)
  /\ fileUint32(bytes, 12) = Len(bytes)
  /\ InFile(bytes, 16, 36 * fileUint32(bytes, 8))

\* the call ended as the decoder res of a layout ends on the file
EndedAs(res) ==
  /\ pvmError = res.err
  /\ entries = res.entries

\* C11: for an input that starts with PVMH, whichever function is called,
\* the call ends as the decoder of the layout the bytes have ends on them
\* (the first layout by parsePVMFile, the second by parsePvm); when the
\* bytes have neither layout the call fails and returns no entries.
C11_LayoutSelectedFromBytes ==
  PvmEnded =>
    /\ MatchesA(pvmFile) =>
         \/ EndedAs(parsePVMFile(pvmFile, maxAttempts))
         \/ EndedAs(parsePVMFile(pvmFile, Len(pvmFile) + 1))
    /\ MatchesB(pvmFile) => EndedAs(parsePvm(pvmFile))
    /\ ~MatchesA(pvmFile) /\ ~MatchesB(pvmFile) =>
         pvmPc = "thrown" /\ entries = << >>

\* a call of parsePVMFile (either component) that has ended on a file whose
\* 12-byte header could be read
ScanEnded ==
  /\ PvmEnded
  /\ pvmRev \in {"PVMViewer", "PVRImage"}
  /\ InFile(pvmFile, 0, 12)

\* where the search for the marker of entry k (from 1) begins: after the
\* header for the first, at the end of the payload before it for the others
SearchStart(k) ==
  IF k = 1 THEN 8 + fileUint32(pvmFile, 4) ELSE entries[k - 1].final

\* C12: in an archive of the first layout with count N, a call that returns
\* returns N entries; entry k begins at the first PVRT marker at or after
\* the end of the payload before it (8 + dataSize for the first) and spans
\* 8 + its embedded data-size bytes; the marker lies fewer positions from
\* the start of its search than the file has bytes; and a call that found
\* no marker for some entry fails with no entries.
C12_MarkerScan ==
  ScanEnded =>
    /\ pvmPc = "returned" =>
         /\ Len(entries) = fileUint16(pvmFile, 10)
         /\ \A k \in 1 .. Len(entries) :
              /\ entries[k].first >= SearchStart(k)
              /\ entries[k].first - SearchStart(k) < Len(pvmFile)
              /\ MagicAt(pvmFile, entries[k].first) = PVRT
              /\ \A o \in SearchStart(k) .. (entries[k].first - 1) :
                   MagicAt(pvmFile, o) # PVRT
              /\ entries[k].final - entries[k].first
                   = 8 + fileUint32(pvmFile, entries[k].first + 4)
    /\ pvmError = ErrNoPvrt => pvmPc = "thrown" /\ entries = << >>

\* C13: the byte ranges of two distinct entries of a returned archive, of
\* either layout, have no byte in common.
C13_EntriesDisjoint ==
  pvmPc = "returned" =>
    \A i, j \in 1 .. Len(entries) :
      i < j =>
        \/ entries[i].final <= entries[j].first
        \/ entries[j].final <= entries[i].first
        \/ entries[i].first = entries[i].final
        \/ entries[j].first = entries[j].final


(***************************************************************************)
(* Properties of the model decoder.                                        *)
(***************************************************************************)
\* the NJCM chunk that is being walked
Chunk == chunkOf(njFile, section)

\* the strips of the strip chunk whose strip k (from 0) begins at address
\* at: the winding and the slots referred to, as stored
RECURSIVE StoredStrips(_, _, _, _, _)
StoredStrips(stream, at, head, k, stripCount) ==
  IF k >= stripCount THEN << >>
  ELSE LET rawLength == readInt16(stream, at)
           n == IF rawLength < 0 THEN -rawLength ELSE rawLength
           width == referenceSize(head)
       IN << [clockwise |-> rawLength < 0,
              refs |-> [j \in 1 .. n |-> readUInt16(stream, at + 2 + (j - 1) * width)]] >>
          \o StoredStrips(stream, at + 2 + n * width, head, k + 1, stripCount)

StripsAt(stream, pos) ==
  StoredStrips(stream, pos + 6, readUInt8(stream, pos), 0,
               readUInt16(stream, pos + 4) % 16384)

\* the slots of the corners of the triangles of a strip, triangle after
\* triangle: positions (i, i+2, i+1) of the strip when it is clockwise and
\* i is even or it is not clockwise and i is odd, (i, i+1, i+2) otherwise
Corners(strip) ==
  LET n == Len(strip.refs)
      triangles == IF n > 2 THEN n - 2 ELSE 0
      place(i, c) ==
        IF (strip.clockwise /\ i % 2 = 0) \/ (~strip.clockwise /\ i % 2 = 1)
        THEN << i, i + 2, i + 1 >>[c + 1]
        ELSE i + c
  IN [j \in 1 .. (3 * triangles) |-> strip.refs[place((j - 1) \div 3, (j - 1) % 3) + 1]]

\* the slot a position of the position array was read for
SlotOf(position) == position.v[1] - 1

\* C14: a strip of n references adds exactly max(0, n - 2) triangles, and
\* triangle i has the strip positions (i, i+2, i+1) when the strip is
\* clockwise and i is even or it is not clockwise and i is odd, and
\* (i, i+1, i+2) otherwise; clockwise is a negative stored length.
C14_StripTriangles ==
  [][(ReadStripChunk /\ njPc' = "model") =>
       LET strips == StripsAt(Chunk, cursor)
           expected == Concat([k \in 1 .. Len(strips) |-> Corners(strips[k])])
           added == SubSeq(arrays'.vertices, Len(arrays.vertices) + 1,
                           Len(arrays'.vertices))
       IN /\ Len(added) = Len(expected)
          /\ \A j \in 1 .. Len(added) :
               added[j] = vertexList'[expected[j] + 1].position
          /\ Len(arrays'.materialIndices)
               = Len(arrays.materialIndices) + (Len(expected) \div 3)]_vars

\* a strip of the four references 0, 1, 2, 3 that is not clockwise was
\* expanded to the triangles (0, 1, 2) and (1, 3, 2)
C14_Witness ==
  /\ njPc = "returned"
  /\ njFile = << Section("NJCM", MeshChunk(<< Mesh(Plain, Quad) >>), << >>) >>
  /\ [j \in 1 .. Len(result.geometry.position) |-> SlotOf(result.geometry.position[j])]
       = << 0, 1, 2, 1, 3, 2 >>


\* a strip of the strip chunk at the cursor refers to a slot that holds no
\* vertex
RefersToEmptySlot ==
  LET strips == StripsAt(Chunk, cursor)
  IN \E k \in 1 .. Len(strips) : \E j \in 1 .. Len(strips[k].refs) :
       getVertex(vertexList, strips[k].refs[j]) = << >>

\* C15: when a strip of a strip chunk refers to a slot no vertex chunk has
\* filled, the decode ends with the error and parseNinjaModel returns
\* nothing: no geometry, none of the triangles expanded before.
C15_EmptySlotFailsDecode ==
  [][(ReadStripChunk /\ RefersToEmptySlot) =>
       /\ njPc' = "thrown"
       /\ njError' = ErrVertex
       /\ result' = << >>]_vars

\* the decode failed on such a strip after triangles had been expanded
C15_Witness ==
  /\ njPc = "thrown"
  /\ njError = ErrVertex
  /\ result = << >>
  /\ arrays.vertices # << >>
  /\ Len(bones) > 1


\* no two entries of a material list are equal under the key of
\* getMaterialIndex
NoDuplicates(list) ==
  \A i \in 1 .. Len(list) : \A j \in 1 .. Len(list) :
    i # j => ~sameMaterial(list[i], list[j])

\* the material a strip chunk at the cursor is read with
ActiveMaterial ==
  [currentMaterial EXCEPT !.doubleSide = isBitFlagSet(readUInt8(Chunk, cursor + 1), 4)]

\* C16: the material list never has two entries equal under the key texId,
\* blending, doubleSide and the three colors; a strip chunk whose material
\* equals an entry leaves the list as it is and tags its triangles with the
\* index of that entry, and one whose material equals none appends it.
C16_MaterialsDeduplicated ==
  [][/\ NoDuplicates(materials')
     /\ (ReadStripChunk /\ njPc' = "model") =>
          LET equal == { i \in 1 .. Len(materials) :
                           sameMaterial(materials[i], ActiveMaterial) }
              tags == SubSeq(arrays'.materialIndices, Len(arrays.materialIndices) + 1,
                             Len(arrays'.materialIndices))
          IN IF equal # {}
             THEN /\ materials' = materials
                  /\ \A t \in 1 .. Len(tags) : tags[t] + 1 \in equal
             ELSE /\ materials' = Append(materials, ActiveMaterial)
                  /\ \A t \in 1 .. Len(tags) : tags[t] = Len(materials)]_vars

\* three strip chunks were read with the materials a, b, a: the list has
\* two entries and the triangles of the third chunk have the index of a
C16_Witness ==
  /\ njPc = "returned"
  /\ Len(result.materials) = 2
  /\ result.materialIndices = << 0, 1, 0, 0 >>


\* C17: each of the arrays of normals, colors, uvs, skin indices and skin
\* weights is empty or has one entry for every triangle corner of the
\* position array, and materialIndices has one entry for every triangle.
C17_ArraysAligned ==
  njPc \in {"model", "returned"} =>
    LET corners == Len(arrays.vertices)
    IN /\ Len(arrays.normals) \in {0, corners}
       /\ Len(arrays.colors) \in {0, corners}
       /\ Len(arrays.uvs) \in {0, corners}
       /\ Len(arrays.skinIndices) \in {0, corners}
       /\ Len(arrays.skinWeights) \in {0, corners}
       /\ 3 * Len(arrays.materialIndices) = corners


\* the record (1 .. MaxBones) that lies at offset p under a placement, 0
\* when p is 0 or no record lies there
RecordAt(place, p) ==
  IF p # 0 /\ \E k \in 1 .. MaxBones : OffsetOf(place, k) = p
  THEN CHOOSE k \in 1 .. MaxBones : OffsetOf(place, k) = p
  ELSE 0

\* the links of the skeleton whose records lie in stream under a placement
SkeletonLinks(stream, place) ==
  [k \in 1 .. MaxBones |->
     [child |-> RecordAt(place, readUInt32(stream, OffsetOf(place, k) + 44)),
      sibling |-> RecordAt(place, readUInt32(stream, OffsetOf(place, k) + 48))]]

\* the file that was decoded is a skeleton with its records under place
IsSkeleton(place) ==
  /\ Len(njFile) = 1
  /\ magicOf(njFile, 1) = "NJCM"
  /\ \A k \in 1 .. MaxBones :
       /\ InStream(chunkOf(njFile, 1), OffsetOf(place, k), BoneRecordSize)
       /\ readUInt8(chunkOf(njFile, 1), OffsetOf(place, k) + 47) = 0
       /\ readUInt8(chunkOf(njFile, 1), OffsetOf(place, k) + 51) = 0
  /\ chunkOf(njFile, 1) = Skeleton(place, SkeletonLinks(chunkOf(njFile, 1), place), 0)

\* depth-first pre-order from record k on: the record, then all that its
\* child link leads to, with this bone (the bone of index first) as the
\* parent, then all that its sibling link leads to, with the parent of
\* this bone as the parent
RECURSIVE PreOrder(_, _, _, _)
PreOrder(links, k, parent, first) ==
  LET below == IF links[k].child = 0 THEN << >>
               ELSE PreOrder(links, links[k].child, first, first + 1)
      beside == IF links[k].sibling = 0 THEN << >>
                ELSE PreOrder(links, links[k].sibling, parent, first + 1 + Len(below))
  IN << [record |-> k, parent |-> parent] >> \o below \o beside

\* the bones by the record each was read from (the first component of the
\* position is the number of the record) and the index of the parent
BonesRead ==
  [i \in 1 .. Len(bones) |->
     [record |-> bones[i].matrix.position[1], parent |-> bones[i].parent]]

\* C18: after the walk of a skeleton the bones are in depth-first
\* pre-order of the links, the bone a child offset leads to has the
\* referring bone as its parent and the bone a sibling offset leads to has
\* the parent of the referring bone, wherever the records lie in the file;
\* the world matrix of a bone is that of its parent times its own.
C18_BonesInPreOrder ==
  \A place \in Placements :
    (njPc = "returned" /\ IsSkeleton(place)) =>
      /\ BonesRead = PreOrder(SkeletonLinks(chunkOf(njFile, 1), place), 1, Undefined, 0)
      /\ \A i \in 1 .. Len(bones) :
           bones[i].matrixWorld
             = (IF bones[i].parent = Undefined THEN << >>
                ELSE bones[bones[i].parent + 1].matrixWorld) \o << bones[i].matrix >>

\* a skeleton whose records are not in file order was walked: bone 1 is
\* the child of the root, bone 2 the child of bone 1, bone 3 the sibling of
\* bone 1
C18_Witness ==
  /\ njPc = "returned"
  /\ \E place \in Placements : OffsetOf(place, 2) > OffsetOf(place, 3) /\ IsSkeleton(place)
  /\ Len(bones) = 4
  /\ bones[2].parent = 0
  /\ bones[3].parent = 1
  /\ bones[4].parent = 0


\* the bones that have no parent
Parentless == { i \in 1 .. Len(bones) : bones[i].parent = Undefined }

\* C19: after a decode of an NJCM chunk that succeeded, exactly one bone
\* of the bone list has no parent.
C19_OneRoot ==
  (njPc = "returned" /\ bones # << >>) => Cardinality(Parentless) = 1

\* C20: in the walk of a skeleton no more bones are created than the file
\* has bone records: a link to the record of the bone itself or of a bone
\* that is being walked is not followed.
C20_BonesBoundedByRecords ==
  \A place \in Placements : IsSkeleton(place) => Len(bones) <= MaxBones


\* the slots the vertex chunk at the cursor stores a vertex at
SlotsWritten ==
  LET indexOffset == readUInt16(Chunk, cursor + 4)
      vertexCount == readUInt16(Chunk, cursor + 6)
  IN { indexOffset + i : i \in 0 .. (vertexCount - 1) }

\* C21: a vertex chunk that stores a record at a slot that holds a vertex
\* leaves the fields the record does not carry as they were: the normal, the
\* color, the uv, and for a record of head 0x2c the bone influences it does
\* not set.
C21_VertexMerged ==
  [][(ReadVertexChunk /\ njPc' = "model") =>
       LET head == readUInt8(Chunk, cursor)
           flag == readUInt8(Chunk, cursor + 1)
       IN \A s \in SlotsWritten :
            getVertex(vertexList, s) # << >> =>
              LET old == getVertex(vertexList, s)
                  new == getVertex(vertexList', s)
              IN /\ (head > 40 /\ head < 48) \/ new.normal = old.normal
                 /\ (head = 35 \/ head = 42) \/ new.color = old.color
                 /\ new.uv = old.uv
                 /\ head = 44 =>
                      \A t \in 1 .. 4 :
                        t # flag - 127 =>
                          /\ new.skinIndices[t] = old.skinIndices[t]
                          /\ new.skinWeights[t] = old.skinWeights[t]]_vars


\* the color of every slot after the chunks of a chunk stream from address
\* at on: the color a vertex chunk of head 0x23 or 0x2a stores with the
\* vertex, and for a vertex chunk without colors the diffuse color of the
\* last material chunk before it, color when there was none
RECURSIVE ColorsOfSlots(_, _, _, _)
ColorsOfSlots(stream, at, color, sofar) ==
  LET head == readUInt8(stream, at)
      carried == head = 35 \/ head = 42
      indexOffset == readUInt16(stream, at + 4)
      vertexCount == readUInt16(stream, at + 6)
      colorAt(i) == at + 8 + i * vertexSize(head) + 12
                    + (IF head > 40 /\ head < 48 THEN 12 ELSE 0)
      stored == [s \in { indexOffset + i : i \in 0 .. (vertexCount - 1) } |->
                   IF carried THEN readColor(stream, colorAt(s - indexOffset)) ELSE color]
      colorBytes == 4 * Cardinality({ b \in 0 .. 2 : isBitFlagSet(head, b) })
  IN IF head = NJD_ENDOFF \/ (head >= NJD_VOLOFF /\ head < NJD_STRIPOFF + 12) THEN sofar
     ELSE IF head >= NJD_VERTOFF /\ head < NJD_VOLOFF
     THEN ColorsOfSlots(stream, at + 8 + vertexCount * vertexSize(head), color,
                        stored @@ sofar)
     ELSE IF head >= NJD_MATOFF /\ head < NJD_VERTOFF
     THEN ColorsOfSlots(stream, at + 4 + colorBytes,
                        IF isBitFlagSet(head, 0) THEN readColor(stream, at + 4) ELSE color,
                        sofar)
     ELSE IF head >= NJD_TINYOFF /\ head < NJD_MATOFF
     THEN ColorsOfSlots(stream, at + 4, color, sofar)
     ELSE ColorsOfSlots(stream, at + 2, color, sofar)

\* a color as the color array holds it
Emitted(color) ==
  << 10 * color.r, 10 * color.g, 10 * color.b,
     IF 10 * color.a < minAlpha THEN minAlpha ELSE 10 * color.a >>

\* one NJCM chunk of one bone with a vertex list was decoded
OneBoneDecoded ==
  /\ njPc = "returned"
  /\ Len(njFile) = 1
  /\ magicOf(njFile, 1) = "NJCM"
  /\ Len(bones) = 1
  /\ boneRecord(chunkOf(njFile, 1), 0).chunkOfs # 0
  /\ readUInt32(chunkOf(njFile, 1), boneRecord(chunkOf(njFile, 1), 0).chunkOfs) # 0

\* C22: every corner of the output has a color: the color stored with its
\* vertex when the vertex chunk carries colors (head 0x23 or 0x2a),
\* otherwise the diffuse color of the last material chunk before the vertex
\* chunk in the bone's chunk stream, white when there was none.
C22_VertexColorFromMaterial ==
  OneBoneDecoded =>
    LET stream == chunkOf(njFile, 1)
        vertexOfs == readUInt32(stream, boneRecord(stream, 0).chunkOfs)
        colorOf == ColorsOfSlots(stream, vertexOfs, White, << >>)
    IN result.geometry.color
         = [j \in 1 .. Len(result.geometry.position) |->
              Emitted(colorOf[SlotOf(result.geometry.position[j])])]

\* C23: when the end marker 0xff is read while an offset pushed by a bits
\* chunk of head 5 is on the memory stack, the offset pushed last is taken
\* off, and the reading goes on at it with the current material and the
\* current color as they were when 0xff was read; the chunk stream of a
\* bone ends only when 0xff is read with nothing on the memory stack.
C23_ReturnKeepsMaterial ==
  [][(ReadEndChunk /\ njPc' = "model") =>
       IF memStack # << >>
       THEN /\ memStack' = SubSeq(memStack, 1, Len(memStack) - 1)
            /\ cursor' = memStack[Len(memStack)]
            /\ Len(stack') = Len(stack)
            /\ Head(stack').op = "chunks"
            /\ currentMaterial' = currentMaterial
            /\ currentColor' = currentColor
       ELSE stack' = Tail(stack)]_vars

\* C24: the memory stack holds an offset only while the chunk stream of a
\* bone is being read: it is empty when readChunk is entered for a stream
\* of a bone, when readBone is entered, between the sections and when the
\* decode has returned, so that no offset pushed in one stream is popped in
\* another stream or in another decode.
C24_MemStackLocal ==
  memStack # << >> =>
    \/ njPc = "thrown"
    \/ njPc = "model" /\ stack # << >> /\ Head(stack).op = "chunks"

\* the strips of a bone are about to be read after its vertex list, and
\* then the vertex list of the next bone after its strips, each after a
\* stream that pushed an offset
C24_Witness ==
  /\ njFile = Called
  /\ njPc = "model"
  /\ stack # << >>
  /\ Head(stack).op = "readChunk"
  /\ Len(bones) = 2
  /\ Len(arrays.vertices) = 6
  /\ memStack = << >>

\* the loop of a readChunk is under way
Interpreting == njPc = "model" /\ stack # << >> /\ Head(stack).op = "chunks"

Signed8(byte) == IF byte >= 128 THEN byte - 256 ELSE byte

\* C26: a bits chunk of head 5 pushes the reader's position just after the
\* 2 bytes of its tag and then moves the reader by its flag byte taken as
\* a signed 8-bit number: forward for 0x00 to 0x7f, backward by 128 to 1
\* bytes for 0x80 to 0xff.
C26_SignedJump ==
  [][(ReadBitsChunk /\ readUInt8(Chunk, cursor) = 5) =>
       /\ memStack' = Append(memStack, cursor + 2)
       /\ cursor' = cursor + 2 + Signed8(readUInt8(Chunk, cursor + 1))]_vars

\* C27: after a tiny chunk flipV is the V-flip bit (bit 7) of the flag
\* byte of that chunk, and it keeps the value until the next tiny chunk of
\* the model, so that the UVs of the strip chunks after it are read with
\* the flip of the last tiny chunk.
C27_FlipVFromFlag ==
  [][/\ (ReadTinyChunk /\ njPc' = "model") =>
          flipV' = isBitFlagSet(readUInt8(Chunk, cursor + 1), 7)
     /\ (~ReadTinyChunk /\ ~ReadSection) => flipV' = flipV]_vars

(***************************************************************************)
(* Properties of the mipmap skip of the TWIDDLED decode.                   *)
(***************************************************************************)
\* the bytes of the mip levels of the widths 1, 2, ... below width
RECURSIVE SmallerLevels(_)
SmallerLevels(width) ==
  IF width <= 1 THEN 0
  ELSE SmallerLevels(width \div 2) + (width \div 2) * (width \div 2) * 2

\* a mipmapped TWIDDLED texture of a square power-of-two size was decoded
MipmappedTwiddleDecoded ==
  /\ pc = "returned"
  /\ rev = "lib"
  /\ ran = "decodeTwiddle"
  /\ header.hasMipmaps
  /\ SquarePowerOfTwo

\* every pixel of the output is the base-level value stored skip bytes
\* after the header, in Morton order
BaseLevelAt(skip) ==
  LET lookUp == createDetwiddlingLookupTable(buffer.width, buffer.width)
  IN \A k \in DOMAIN lookUp.table :
       PixelAt(lookUp.table[k].x, lookUp.table[k].y)
         = drawImageStoreOrZero(getUint16(buffer, skip + 2 * k), buffer.colorFormat)

DataOf(c) ==
  [j \in ByteRange(decoding[c].view) |-> decoding[c].pixels[(j \div 4) + 1][(j % 4) + 1]]

\* call c has written every pixel
Decoded(c) == decoding[c].n = decoding[c].view.width * decoding[c].view.height

\* C29: however the passes of two decodeTwiddled calls that share the memo
\* table of untwiddle are interleaved, the output of each call is the
\* output of that call with untwiddle computed anew for every pixel, and
\* the table holds for the key of every (x, y) the bit interleave of x and
\* y.
C29_MemoTransparent ==
  decoding # << >> =>
    /\ \A c \in DOMAIN decoding :
         Decoded(c) =>
           DataOf(c) = decodeTwiddled(decoding[c].view, 0, decoding[c].view).data
    /\ \A x \in 0 .. 11, y \in 0 .. 11 :
         mortonKey(x, y) \in DOMAIN mortonLookupTable =>
           mortonLookupTable[mortonKey(x, y)] = untwiddle(x, y)

\* two calls have ended; the first took the index of (1, 0) from the table
\* after the second had stored it, and the second that of (0, 0) after
\* the first had
C29_Witness ==
  /\ decoding # << >>
  /\ \A c \in DOMAIN decoding : Decoded(c)
  /\ decoding[1].view.width = 12
  /\ decoding[2].view.height = 11
  /\ DOMAIN mortonLookupTable
       = { mortonKey(x, 0) : x \in 0 .. 11 } \cup { mortonKey(x, y) : x \in 0 .. 1, y \in 0 .. 10 }

(***************************************************************************)
(* Properties of the PVRImage component.                                   *)
(***************************************************************************)
\* no loadAndDrawTexture is under way
Settled == loads # << >> /\ \A k \in DOMAIN loads : loads[k].pc = "done"

\* C30: when the paths change while an earlier fetch and decode is under
\* way, what is shown once every load has ended is the result of the load
\* requested last: its texture on the canvas, its header and no error, or
\* its error and the placeholder; an earlier load that ends after it does
\* not overwrite it.
C30_LatestRequestShown ==
  (Settled /\ loads[Len(loads)].assetPath # "") =>
    LET last == loads[Len(loads)]
    IN IF Fetched(last.assetPath) /\ Decodes(last.assetPath)
       THEN /\ screen.canvas = Drawn(last.assetPath, last.palette)
            /\ screen.header = last.assetPath
            /\ screen.error = << >>
       ELSE /\ screen.canvas = Placeholder
            /\ screen.error = << IF Fetched(last.assetPath) THEN "parsePvr"
                                  ELSE "Failed to load texture", last.assetPath >>

====
